---- MODULE Spec2Model ----
(***************************************************************************)
(* Model of the Uni_Helper ingestion-and-processing pipeline:              *)
(*   - ProcessingQueue (src/processor/queue.py): running flag, FIFO queue, *)
(*     worker threads, statistics counters;                                *)
(*   - UniHelper (src/main.py): process_email_callback on the poll thread, *)
(*     application start/stop and the shutdown signal;                     *)
(*   - EmailPoller (src/email_handler/poller.py): poll loop with backoff;  *)
(*   - LocalModelManager.generate_json and _get_fallback_structure          *)
(*     (src/ai/local_model.py), AIClient (src/ai/client.py);               *)
(*   - AIProcessor.process_email (src/ai/processor.py) as run by           *)
(*     UniHelper._process_email_worker.                                    *)
(* Threads interleave at the granularity of their reads and writes of      *)
(* shared state (running flag, queue, counters).                           *)
(***************************************************************************)
EXTENDS Integers, Sequences, FiniteSets, TLC

\* ---------------------------------------------------------------- bounds
MaxMsgs == 3
MaxItems == 2
MaxWorkers == 2
MaxRetries == 2
\* cap on consecutive_failures, which the unexpected-error path of the poll
\* loop can raise without limit
MaxCount == 6
\* longest search answer of a mailbox that presents ids again
MaxBatch == 2

Ids == 1..MaxMsgs
Workers == 1..MaxWorkers

VARIABLES
    \* ProcessingQueue
    running,          \* ProcessingQueue.running
    queue,            \* ProcessingQueue.queue: sequence of queue items
    unfinished,       \* queue.Queue.unfinished_tasks (put: +1, task_done: -1)
    total_processed,  \* ProcessingQueue.total_processed
    total_errors,     \* ProcessingQueue.total_errors
    worker_thread,    \* ProcessingQueue.worker_thread: 0 (None) or a thread id
    wpc,              \* position of every worker thread in _worker
    witem,            \* the queue item a worker holds (id 0: none)
    \* the thread that calls start()/stop()/submit() on the queue
    cpc,              \* "idle" or "joining" (inside worker_thread.join)
    lastStop,         \* how the last stop() call returned
    \* the poll thread inside process_email_callback
    hpc,              \* "idle", "check", "submit", "put", "direct"
    hmsg,             \* id of the message the handler holds (0: none)
    nextId,           \* next fresh message id
    \* history (not read by the program)
    delivered,        \* ids handed to process_email_callback, in order
    submitted,        \* ids put on the queue, in order
    started,          \* ids whose callback the consumer started, in order
    ran,              \* ids whose callback was started, on any thread
    afterStop,        \* ids dequeued while the running flag was cleared
    lastSubmit,       \* how the latest submit() call ended
    lastStart,        \* the latest start() call: a tick that flips with every
                      \* call, and whether it spawned a consumer
    \* EmailPoller.start_polling, on the main thread
    ppc,              \* position in the poll loop
    is_running,       \* EmailPoller.is_running
    consecutive_failures,
    retry_delay,
    session,          \* "live": logged-in IMAP session; "dead": none
    batch,            \* messages of the current poll not yet visited
    \* UniHelper
    app_running,      \* UniHelper.running
    apc,              \* main thread: "lib", "polling", "stopping",
                      \* "stopping_sig", "done", "exited"
    \* history of the poll loop (not read by the program)
    failStreak,       \* failed reconnects since the last success
    lastWait,         \* the wait before the latest reconnect attempt
    lastEvent,        \* latest of: "reconnect_failed", "reconnect_ok", "poll_ok"
    plog,             \* the messages the current poll visited, what the
                      \* already-processed check answered and what was done
    pollCause,        \* how the poll() that just returned ended
    stopAt,           \* where the loop was when stop_polling was called
    pollBase,         \* <<Len(delivered), Len(submitted)>> when the current
                      \* poll fetched its batch
    \* database
    processed,        \* ids recorded in the ProcessedEmails table
    \* LocalModelManager.generate_json
    gpc,              \* "loop" (inside generate_json), "gen" (inside
                      \* generate) or "done" (returned)
    retries,          \* the retries argument
    attempt,          \* the loop variable
    calls,            \* backend invocations made so far
    script,           \* what the backend answers to its 1st, 2nd, ... call
    gresult,          \* the returned value
    \* AIProcessor.process_email inside UniHelper._process_email_worker
    kpc,              \* position in the pipeline
    provider,         \* AIClient.provider: "claude", "openai" or "local"
    words,            \* fallback keywords occurring in the message text
    intent_result,    \* process_email: classify_intent's return value
    entities,         \* process_assignment / process_note: extracted entities
    query_analysis,   \* process_query: the query understanding
    result,           \* what process_email returned
    sent,             \* the response handed to email_sender.send_confirmation
    persisted,        \* rows written by the pipeline, by table
    failures,         \* history: stages whose backend call raised, "db"
                      \* if a database call raised
    undecoded,        \* history: stages whose backend output was no JSON
    note_content,     \* process_note: the content handed to Notes.create
    assignment_row,   \* process_assignment: the row handed to Assignments.create
    confirmation,     \* process_assignment: the two dates of the confirmation
    days,             \* process_query: the window handed to
                      \* Assignments.get_upcoming (0: not computed)
    branch,           \* the intent process_email dispatched on
    \* LocalModelManager._get_fallback_structure
    fpc,              \* "idle", "call" (entered) or "done" (returned)
    system_prompt,    \* the system_prompt argument, as text
    user_prompt,      \* the user_prompt argument, as text
    fallback,         \* the returned structure
    \* _worker's `self.total_processed += 1` / `self.total_errors += 1`
    wread,            \* per consumer: the counter value its += has loaded
    \* ReminderScheduler.check_and_send_reminders
    spc,              \* "idle", "loop" (inside the for loop) or "failed"
    to_remind,        \* the rows get_due_soon returned, not yet visited
    reminded,         \* assignments whose reminded_at is set
    reminders,        \* history: per assignment, reminder emails delivered
    checks,           \* history: reminder checks begun
    visit             \* history: the last loop iteration and how it ended

qvars == <<running, queue, unfinished, total_processed, total_errors,
           worker_thread, wpc, witem, cpc, lastStop>>
hvars == <<hpc, hmsg, nextId>>
histvars == <<delivered, submitted, started, ran, afterStop, lastSubmit,
              lastStart>>
pvars == <<ppc, is_running, consecutive_failures, retry_delay, session, batch>>
avars == <<app_running, apc>>
phist == <<failStreak, lastWait, lastEvent>>
pobs == <<plog, pollCause, stopAt, pollBase>>
gvars == <<gpc, retries, attempt, calls, script, gresult>>
kvars == <<kpc, provider, words, intent_result, entities, query_analysis,
           result, sent, persisted, failures, undecoded, note_content,
           days, assignment_row, confirmation, branch>>
fvars == <<fpc, system_prompt, user_prompt, fallback>>
cvars == <<wread>>
svars == <<spc, to_remind, reminded, reminders, checks, visit>>
vars == <<qvars, hvars, histvars, pvars, avars, phist, pobs, processed,
          gvars, kvars, fvars, cvars, svars>>

\* no assignment stored and no confirmation written yet
NoStamp == [day |-> -1, hour |-> 0, pm |-> FALSE]
NoRow == [due_date |-> -1, reminder_hours |-> 0]
NoConfirmation == [due |-> NoStamp, reminder |-> NoStamp]

\* ------------------------------------------------------- ProcessingQueue

\* A queue item: the message id and which callback was paired with it.
\* "pipeline" is UniHelper._process_email_worker, "client" any other callback.
Item(i, cb) == [id |-> i, cb |-> cb]
NoItem == [id |-> 0, cb |-> "none"]

\* thread.is_alive()
IsAlive(w) == w # 0 /\ wpc[w] \in {"check", "get", "callback"}

FreeSlots == {w \in Workers : wpc[w] \in {"none", "exited"}}
MinOf(S) == CHOOSE x \in S : \A y \in S : x <= y

\* callbacks in progress on any thread
InProgress == Cardinality({w \in Workers : wpc[w] = "callback"})
              + (IF hpc = "direct" THEN 1 ELSE 0)

\* queue.Queue.get: the item handed out and the rest (FIFO)
QueueGetLifo(q) == <<q[Len(q)], SubSeq(q, 1, Len(q) - 1)>>
QueueGet(q) == <<Head(q), Tail(q)>>

\* ProcessingQueue.__init__
QueueInit ==
    /\ running = FALSE
    /\ queue = <<>>
    /\ unfinished = 0
    /\ total_processed = 0
    /\ total_errors = 0
    /\ worker_thread = 0
    /\ wpc = [w \in Workers |-> "none"]
    /\ witem = [w \in Workers |-> NoItem]
    /\ cpc = "idle"
    /\ lastStop = "none"

\* ProcessingQueue.start, called by the controlling thread
start_always_spawns ==
    /\ cpc = "idle"
    /\ FreeSlots # {}
    /\ running' = TRUE
    /\ worker_thread' = MinOf(FreeSlots)
    /\ wpc' = [wpc EXCEPT ![MinOf(FreeSlots)] = "check"]
    /\ lastStop' = "none"
    /\ UNCHANGED <<queue, unfinished, total_processed, total_errors, witem, cpc>>
    /\ UNCHANGED <<hvars, delivered, submitted, started, ran, afterStop, lastSubmit>>
start_call ==
    /\ cpc = "idle"
    /\ IF running
       THEN UNCHANGED <<running, worker_thread, wpc>>
       ELSE /\ FreeSlots # {}
            /\ running' = TRUE
            /\ worker_thread' = MinOf(FreeSlots)
            /\ wpc' = [wpc EXCEPT ![MinOf(FreeSlots)] = "check"]
    /\ lastStop' = "none"
    /\ UNCHANGED <<queue, unfinished, total_processed, total_errors, witem, cpc>>
    /\ UNCHANGED <<hvars, delivered, submitted, started, ran, afterStop, lastSubmit>>

\* start() without a record of the call
start == start_call /\ UNCHANGED lastStart

\* start() with the call recorded: which branch it took
start_observed ==
    /\ start_call
    /\ lastStart' = [tick |-> 1 - lastStart.tick,
                     how |-> IF running THEN "noop" ELSE "spawned"]

\* ProcessingQueue.stop up to the join: clears the flag, then either returns
\* at once (not running, or no live worker) or blocks in join(timeout)
stop_call ==
    /\ cpc = "idle"
    /\ IF ~running
       THEN /\ lastStop' = "not_running"
            /\ UNCHANGED <<running, cpc>>
       ELSE /\ running' = FALSE
            /\ IF IsAlive(worker_thread)
               THEN cpc' = "joining" /\ lastStop' = "none"
               ELSE cpc' = "idle" /\ lastStop' = "joined"
    /\ UNCHANGED <<queue, unfinished, total_processed, total_errors,
                   worker_thread, wpc, witem>>
    /\ UNCHANGED <<hvars, histvars>>

\* join returns because the worker thread has exited
stop_joined ==
    /\ cpc = "joining"
    /\ ~IsAlive(worker_thread)
    /\ cpc' = "idle"
    /\ lastStop' = "joined"
    /\ UNCHANGED <<running, queue, unfinished, total_processed, total_errors,
                   worker_thread, wpc, witem>>
    /\ UNCHANGED <<hvars, histvars>>

\* join returns on timeout with the worker still alive: logged, not an error
stop_timeout_never ==
    /\ cpc = "joining"
    /\ IsAlive(worker_thread)
    /\ FALSE
    /\ UNCHANGED <<qvars, hvars, histvars>>
stop_timeout ==
    /\ cpc = "joining"
    /\ IsAlive(worker_thread)
    /\ cpc' = "idle"
    /\ lastStop' = "timeout"
    /\ UNCHANGED <<running, queue, unfinished, total_processed, total_errors,
                   worker_thread, wpc, witem>>
    /\ UNCHANGED <<hvars, histvars>>

\* queue.put of submit
Put(it) ==
    /\ queue' = Append(queue, it)
    /\ unfinished' = unfinished + 1
    /\ submitted' = Append(submitted, it.id)

\* queue.py:86 `if not self.running: raise RuntimeError(...)`
SubmitAllowedAlways(r) == TRUE
SubmitAllowed(r) == r

\* ProcessingQueue.submit called by the controlling thread with its own
\* callback (as test_queue does); raises and enqueues nothing if not running
submit ==
    /\ cpc = "idle"
    /\ nextId <= MaxItems
    /\ nextId' = nextId + 1
    /\ IF SubmitAllowed(running)
       THEN Put(Item(nextId, "client")) /\ lastSubmit' = "queued"
       ELSE /\ UNCHANGED <<queue, unfinished, submitted>>
            /\ lastSubmit' = "not_started"
    /\ UNCHANGED <<running, total_processed, total_errors, worker_thread, wpc,
                   witem, cpc, lastStop, hpc, hmsg, delivered, started, ran,
                   afterStop, lastStart>>

\* _worker: `while self.running:`
worker_check(w) ==
    /\ wpc[w] = "check"
    /\ wpc' = [wpc EXCEPT ![w] = IF running THEN "get" ELSE "exited"]
    /\ UNCHANGED <<running, queue, unfinished, total_processed, total_errors,
                   worker_thread, witem, cpc, lastStop>>
    /\ UNCHANGED <<hvars, histvars>>

\* _worker: `self.queue.get(timeout=1)` raised queue.Empty: continue
worker_get_blocks(w) ==
    /\ wpc[w] = "get"
    /\ queue = <<>>
    /\ FALSE
    /\ UNCHANGED <<qvars, hvars, histvars>>
worker_get_empty(w) ==
    /\ wpc[w] = "get"
    /\ queue = <<>>
    /\ wpc' = [wpc EXCEPT ![w] = "check"]
    /\ UNCHANGED <<running, queue, unfinished, total_processed, total_errors,
                   worker_thread, witem, cpc, lastStop>>
    /\ UNCHANGED <<hvars, histvars>>

\* _worker: get returned an item; the worker enters callback(email_data).
\* The statements between the two touch only the worker's own locals.
worker_get(w) ==
    /\ wpc[w] = "get"
    /\ queue # <<>>
    /\ queue' = QueueGet(queue)[2]
    /\ witem' = [witem EXCEPT ![w] = QueueGet(queue)[1]]
    /\ wpc' = [wpc EXCEPT ![w] = "callback"]
    /\ started' = Append(started, QueueGet(queue)[1].id)
    /\ ran' = ran \cup {QueueGet(queue)[1].id}
    /\ afterStop' = IF running THEN afterStop
                    ELSE afterStop \cup {QueueGet(queue)[1].id}
    /\ UNCHANGED <<running, unfinished, total_processed, total_errors,
                   worker_thread, cpc, lastStop>>
    /\ UNCHANGED <<hvars, delivered, submitted, lastSubmit, lastStart>>

\* _worker: the callback returned; total_processed += 1; finally task_done()
worker_callback_ok(w) ==
    /\ wpc[w] = "callback"
    /\ total_processed' = total_processed + 1
    /\ unfinished' = unfinished - 1
    /\ witem' = [witem EXCEPT ![w] = NoItem]
    /\ wpc' = [wpc EXCEPT ![w] = "check"]
    /\ UNCHANGED <<running, queue, total_errors, worker_thread, cpc, lastStop>>
    /\ UNCHANGED <<hvars, histvars>>

\* _worker: the callback raised; except Exception: total_errors += 1;
\* finally task_done(); the loop goes on
worker_callback_raise_dies(w) ==
    /\ wpc[w] = "callback"
    /\ witem[w].cb = "client"
    /\ total_errors' = total_errors + 1
    /\ unfinished' = unfinished - 1
    /\ witem' = [witem EXCEPT ![w] = NoItem]
    /\ wpc' = [wpc EXCEPT ![w] = "exited"]
    /\ UNCHANGED <<running, queue, total_processed, worker_thread, cpc, lastStop>>
    /\ UNCHANGED <<hvars, histvars>>
worker_callback_raise(w) ==
    /\ wpc[w] = "callback"
    /\ witem[w].cb = "client"
    /\ total_errors' = total_errors + 1
    /\ unfinished' = unfinished - 1
    /\ witem' = [witem EXCEPT ![w] = NoItem]
    /\ wpc' = [wpc EXCEPT ![w] = "check"]
    /\ UNCHANGED <<running, queue, total_processed, worker_thread, cpc, lastStop>>
    /\ UNCHANGED <<hvars, histvars>>

\* ---------------------------------------- UniHelper.process_email_callback

HandlerInit ==
    /\ hpc = "idle"
    /\ hmsg = 0
    /\ nextId = 1

HistInit ==
    /\ delivered = <<>>
    /\ submitted = <<>>
    /\ started = <<>>
    /\ ran = {}
    /\ afterStop = {}
    /\ lastSubmit = "none"
    /\ lastStart = [tick |-> 0, how |-> "none"]

\* no consumer is inside a counter update
NoRead == [phase |-> "none", value |-> 0]
CountIdle == wread = [w \in Workers |-> NoRead]

\* the assignments table: pending assignments inside the reminder window
MaxAssignments == 2
AssignmentIds == 1..MaxAssignments
NoVisit == [id |-> 0, how |-> "none"]

\* no reminder check has run; no assignment has been reminded
SchedIdle ==
    /\ spc = "idle"
    /\ to_remind = <<>>
    /\ reminded = {}
    /\ reminders = [a \in AssignmentIds |-> 0]
    /\ checks = 0
    /\ visit = NoVisit

\* entry of process_email_callback with message i: email_parser.parse either
\* returns (the handler goes on to main.py:161) or raises, which the
\* handler's own except swallows: the message is dropped
handler_enter(i, parseOk) ==
    /\ hpc = "idle"
    /\ delivered' = Append(delivered, i)
    /\ IF parseOk
       THEN hpc' = "check" /\ hmsg' = i
       ELSE UNCHANGED <<hpc, hmsg>>

\* main.py:161 `if self.processing_queue and self.processing_queue.running`
\* else-branch: the callback runs directly on the calling thread
handler_check ==
    /\ hpc = "check"
    /\ IF running
       THEN hpc' = "submit" /\ UNCHANGED ran
       ELSE hpc' = "direct" /\ ran' = ran \cup {hmsg}
    /\ UNCHANGED <<hmsg, nextId, delivered, submitted, started, afterStop, lastStart,
                   lastSubmit>>
    /\ UNCHANGED qvars

\* queue.py:86 `if not self.running: raise RuntimeError`, caught by the
\* handler's except: the message is dropped
handler_submit ==
    /\ hpc = "submit"
    /\ IF SubmitAllowed(running)
       THEN hpc' = "put" /\ UNCHANGED <<hmsg, lastSubmit>>
       ELSE hpc' = "idle" /\ hmsg' = 0 /\ lastSubmit' = "not_started"
    /\ UNCHANGED <<nextId, delivered, submitted, started, ran, afterStop, lastStart>>
    /\ UNCHANGED qvars

\* queue.py:96 `self.queue.put(queue_item)`; the handler returns
handler_put ==
    /\ hpc = "put"
    /\ Put(Item(hmsg, "pipeline"))
    /\ lastSubmit' = "queued"
    /\ hpc' = "idle"
    /\ hmsg' = 0
    /\ UNCHANGED <<running, total_processed, total_errors, worker_thread, wpc,
                   witem, cpc, lastStop, nextId, delivered, started, ran,
                   afterStop, lastStart>>

\* _process_email_worker, run directly, returns (it catches every Exception)
handler_direct_done ==
    /\ hpc = "direct"
    /\ hpc' = "idle"
    /\ hmsg' = 0
    /\ UNCHANGED <<nextId, histvars>>
    /\ UNCHANGED qvars

\* ------------------------------------------------ EmailPoller.start_polling

\* program constants of the poll loop
RetryFloor == 5
MaxFailures == 5
max_retry_delay == 60

Min(a, b) == IF a < b THEN a ELSE b

\* poller.py:225 `retry_delay = min(retry_delay * 2, self.max_retry_delay)`
NextDelay(d) == Min(d * 2, max_retry_delay)

\* poller.py:227 `if consecutive_failures >= 5`
TooManyFailuresStrict(cf) == cf > MaxFailures
TooManyFailures(cf) == cf >= MaxFailures

\* the state start_polling sets up before its loop (poller.py:192-199), on
\* the session UniHelper.initialize opened
PollerInit ==
    /\ ppc = "loop"
    /\ is_running = TRUE
    /\ consecutive_failures = 0
    /\ retry_delay = RetryFloor
    /\ session = "live"
    /\ batch = <<>>
    /\ failStreak = 0
    /\ lastWait = 0
    /\ lastEvent = "none"
    /\ plog = <<>>
    /\ pollCause = "none"
    /\ stopAt = "none"
    /\ pollBase = <<0, 0>>

\* UniHelper.is_email_processed (main.py:219-232), the check handed to poll()
IsProcessedNever(i) == FALSE
IsProcessed(i) == i \in processed

\* one visited message in the log of a poll: what the already-processed check
\* answered and what poll() did with the message
Visit(i, known, act) == [id |-> i, known |-> known, act |-> act]

\* the loop moves on from the poll it made: its log is closed
PollOver ==
    /\ plog' = <<>>
    /\ pollCause' = "none"
    /\ pollBase' = <<0, 0>>
    /\ UNCHANGED stopAt

\* poll() returned False (poller.py:209-216): count the failure, disconnect,
\* then sleep retry_delay
PollFailed ==
    /\ consecutive_failures' = consecutive_failures + 1
    /\ session' = "dead"
    /\ ppc' = "backoff"
    /\ batch' = <<>>
    /\ UNCHANGED <<is_running, retry_delay, failStreak, lastWait, lastEvent>>

\* poll() returned True (poller.py:231-238): reset the failure tracking if
\* any, then sleep the interval
PollSucceeded ==
    /\ IF consecutive_failures > 0
       THEN consecutive_failures' = 0 /\ retry_delay' = RetryFloor
       ELSE UNCHANGED <<consecutive_failures, retry_delay>>
    /\ ppc' = "sleep"
    /\ batch' = <<>>
    /\ failStreak' = 0
    /\ lastEvent' = "poll_ok"
    /\ UNCHANGED <<is_running, session, lastWait>>

\* poller.py:201 `while self.is_running:`
poll_loop ==
    /\ ppc = "loop"
    /\ ppc' = IF is_running THEN "poll" ELSE "final"
    /\ UNCHANGED <<is_running, consecutive_failures, retry_delay, session,
                   batch, phist, pobs>>
    /\ UNCHANGED <<qvars, hvars, histvars>>

\* poll() whose get_unread_emails hit a transport error (ssl.SSLError,
\* IMAP4.abort, ConnectionError, OSError): returns None, poll returns False
poll_transport_error ==
    /\ ppc = "poll"
    /\ PollFailed
    /\ plog' = <<>>
    /\ pollCause' = "transport"
    /\ pollBase' = <<Len(delivered), Len(submitted)>>
    /\ UNCHANGED stopAt
    /\ UNCHANGED <<qvars, hvars, histvars>>

\* poll() whose get_unread_emails returned []: nothing unseen, a failed
\* search, or any other exception (poller.py:106-108); poll returns True
poll_empty ==
    /\ ppc = "poll"
    /\ PollSucceeded
    /\ plog' = <<>>
    /\ pollCause' = "empty"
    /\ pollBase' = <<Len(delivered), Len(submitted)>>
    /\ UNCHANGED stopAt
    /\ UNCHANGED <<qvars, hvars, histvars>>

\* poll() on a live session that fetched n unseen messages, in mailbox order
poll_found(n) ==
    /\ ppc = "poll"
    /\ session = "live"
    /\ nextId + n - 1 <= MaxMsgs
    /\ batch' = [k \in 1..n |-> nextId + k - 1]
    /\ nextId' = nextId + n
    /\ ppc' = "batch"
    /\ plog' = <<>>
    /\ pollBase' = <<Len(delivered), Len(submitted)>>
    /\ UNCHANGED <<pollCause, stopAt>>
    /\ UNCHANGED <<is_running, consecutive_failures, retry_delay, session, phist>>
    /\ UNCHANGED <<qvars, hpc, hmsg, histvars>>

\* poll() on a live session whose search lists the ids b: ids are IMAP
\* sequence numbers, so a mailbox can present an id again
Batches == UNION {[1..n -> Ids] : n \in 1..MaxBatch}
poll_fetch(b) ==
    /\ ppc = "poll"
    /\ session = "live"
    /\ Len(delivered) + Len(b) <= MaxItems
    /\ batch' = b
    /\ ppc' = "batch"
    /\ plog' = <<>>
    /\ pollBase' = <<Len(delivered), Len(submitted)>>
    /\ UNCHANGED <<pollCause, stopAt>>
    /\ UNCHANGED <<is_running, consecutive_failures, retry_delay, session, phist>>
    /\ UNCHANGED <<qvars, hvars, histvars>>

\* poll(), next message of the batch: is_processed_callback returned True,
\* the message is skipped (poller.py:150-152)
poll_skip ==
    /\ ppc = "batch"
    /\ batch # <<>>
    /\ hpc = "idle"
    /\ IsProcessed(Head(batch))
    /\ batch' = Tail(batch)
    /\ plog' = Append(plog, Visit(Head(batch), TRUE, "skip"))
    /\ UNCHANGED <<pollCause, stopAt, pollBase>>
    /\ UNCHANGED <<ppc, is_running, consecutive_failures, retry_delay, session,
                   phist>>
    /\ UNCHANGED <<qvars, hvars, histvars>>

\* poll(), next message of the batch: is_processed_callback returned False
\* and the handler is called (poller.py:148-167)
poll_visit(parseOk) ==
    /\ ppc = "batch"
    /\ batch # <<>>
    /\ hpc = "idle"
    /\ ~IsProcessed(Head(batch))
    /\ handler_enter(Head(batch), parseOk)
    /\ batch' = Tail(batch)
    /\ plog' = Append(plog, Visit(Head(batch), FALSE, "call"))
    /\ UNCHANGED <<pollCause, stopAt, pollBase>>
    /\ UNCHANGED <<ppc, is_running, consecutive_failures, retry_delay, session,
                   phist>>
    /\ UNCHANGED <<qvars, nextId, submitted, started, ran, afterStop, lastStart, lastSubmit>>

\* the callback's exception leaving poll() through its outer except
poll_visit_raises_aborts ==
    /\ ppc = "batch"
    /\ batch # <<>>
    /\ hpc = "idle"
    /\ ~IsProcessed(Head(batch))
    /\ delivered' = Append(delivered, Head(batch))
    /\ PollFailed
    /\ plog' = Append(plog, Visit(Head(batch), FALSE, "raise"))
    /\ pollCause' = "app_error"
    /\ UNCHANGED <<stopAt, pollBase>>
    /\ UNCHANGED <<qvars, hvars, submitted, started, ran, afterStop, lastStart, lastSubmit>>

\* poll(), next message of the batch: the callback raised; the except around
\* the call logs it and the loop goes on (poller.py:166-171)
poll_visit_raises ==
    /\ ppc = "batch"
    /\ batch # <<>>
    /\ hpc = "idle"
    /\ ~IsProcessed(Head(batch))
    /\ delivered' = Append(delivered, Head(batch))
    /\ batch' = Tail(batch)
    /\ plog' = Append(plog, Visit(Head(batch), FALSE, "raise"))
    /\ UNCHANGED <<pollCause, stopAt, pollBase>>
    /\ UNCHANGED <<ppc, is_running, consecutive_failures, retry_delay, session,
                   phist>>
    /\ UNCHANGED <<qvars, hvars, submitted, started, ran, afterStop, lastStart, lastSubmit>>

\* poll(): is_processed_callback raised, or it returned False and decoding
\* the Subject header raised (poller.py:150, 155-161); the outer except
\* returns False and the rest of the batch is not visited (poller.py:175-179)
poll_check_raises ==
    /\ ppc = "batch"
    /\ batch # <<>>
    /\ hpc = "idle"
    /\ PollFailed
    /\ plog' = Append(plog, Visit(Head(batch), FALSE, "abort"))
    /\ pollCause' = "app_error"
    /\ UNCHANGED <<stopAt, pollBase>>
    /\ UNCHANGED <<qvars, hvars, histvars>>

\* poll(): the batch is exhausted, poll returns True
poll_batch_done ==
    /\ ppc = "batch"
    /\ batch = <<>>
    /\ hpc = "idle"
    /\ PollSucceeded
    /\ pollCause' = "batch_done"
    /\ UNCHANGED <<plog, stopAt, pollBase>>
    /\ UNCHANGED <<qvars, hvars, histvars>>

\* poller.py:238 `time.sleep(interval)` returned
poll_sleep ==
    /\ ppc = "sleep"
    /\ ppc' = "loop"
    /\ PollOver
    /\ UNCHANGED <<is_running, consecutive_failures, retry_delay, session,
                   batch, phist>>
    /\ UNCHANGED <<qvars, hvars, histvars>>

\* an exception escaped the loop body (poller.py:244-251), at the top of an
\* iteration or from the interval sleep: count it, disconnect, sleep
poll_unexpected ==
    /\ ppc \in {"poll", "sleep"}
    /\ consecutive_failures < MaxCount
    /\ consecutive_failures' = consecutive_failures + 1
    /\ session' = "dead"
    /\ ppc' = "backoff_x"
    /\ PollOver
    /\ UNCHANGED <<is_running, retry_delay, batch, phist>>
    /\ UNCHANGED <<qvars, hvars, histvars>>

\* `time.sleep(retry_delay)` on either recovery path
poll_backoff ==
    /\ ppc \in {"backoff", "backoff_x"}
    /\ ppc' = IF ppc = "backoff" THEN "reconnect" ELSE "reconnect_x"
    /\ lastWait' = retry_delay
    /\ PollOver
    /\ UNCHANGED <<is_running, consecutive_failures, retry_delay, session,
                   batch, failStreak, lastEvent>>
    /\ UNCHANGED <<qvars, hvars, histvars>>

\* a failed connect() on either path: double the delay up to the ceiling and
\* stop the poller once the failures reach the threshold
ReconnectFailed ==
    /\ retry_delay' = NextDelay(retry_delay)
    /\ IF TooManyFailures(consecutive_failures)
       THEN is_running' = FALSE /\ ppc' = "final"
       ELSE is_running' = is_running /\ ppc' = "loop"
    /\ failStreak' = failStreak + 1
    /\ lastEvent' = "reconnect_failed"
    /\ UNCHANGED <<consecutive_failures, session, batch, lastWait>>

\* poller.py:218-230, connect() after a failed poll
poll_reconnect(ok) ==
    /\ ppc = "reconnect"
    /\ IF ok
       THEN /\ session' = "live"
            /\ consecutive_failures' = 0
            /\ retry_delay' = RetryFloor
            /\ ppc' = "loop"
            /\ failStreak' = 0
            /\ lastEvent' = "reconnect_ok"
            /\ UNCHANGED <<is_running, batch, lastWait>>
       ELSE ReconnectFailed
    /\ UNCHANGED <<qvars, hvars, histvars, pobs>>

\* poller.py:253-258, connect() after an unexpected error: a success resets
\* neither consecutive_failures nor retry_delay
poll_reconnect_x(ok) ==
    /\ ppc = "reconnect_x"
    /\ IF ok
       THEN /\ session' = "live"
            /\ ppc' = "loop"
            /\ failStreak' = 0
            /\ lastEvent' = "reconnect_ok"
            /\ UNCHANGED <<is_running, consecutive_failures, retry_delay,
                           batch, lastWait>>
       ELSE ReconnectFailed
    /\ UNCHANGED <<qvars, hvars, histvars, pobs>>

\* poller.py:260 `self.disconnect()`; start_polling returns
poll_return ==
    /\ ppc = "final"
    /\ ppc' = "returned"
    /\ session' = "dead"
    /\ UNCHANGED <<is_running, consecutive_failures, retry_delay, batch, phist,
                   pobs>>
    /\ UNCHANGED <<qvars, hvars, histvars>>

\* EmailPoller.stop_polling, called by another thread while the loop runs
stop_polling ==
    /\ ppc \notin {"none", "returned"}
    /\ stopAt = "none"
    /\ is_running' = FALSE
    /\ stopAt' = ppc
    /\ UNCHANGED <<ppc, consecutive_failures, retry_delay, session, batch,
                   phist, plog, pollCause, pollBase>>
    /\ UNCHANGED <<qvars, hvars, histvars>>

\* ------------------------------------ LocalModelManager.generate_json

\* Text is a sequence of characters. "m" stands for one well-formed member
\* or scalar of a JSON object, "p" for a character of prose, "_" for
\* whitespace, "b" for a backquote; the other characters are themselves.
Ws == "_"
Fence == <<"b", "b", "b">>
JsonTag == <<"j", "s", "o", "n">>

RECURSIVE LStrip(_)
LStrip(t) == IF t # <<>> /\ Head(t) = Ws THEN LStrip(Tail(t)) ELSE t
RECURSIVE RStrip(_)
RStrip(t) == IF t # <<>> /\ t[Len(t)] = Ws THEN RStrip(SubSeq(t, 1, Len(t) - 1)) ELSE t
\* str.strip
Strip(t) == RStrip(LStrip(t))

\* str.startswith
StartsWith(t, pre) == Len(t) >= Len(pre) /\ SubSeq(t, 1, Len(pre)) = pre

\* positions at which sub occurs in t
Occurrences(t, sub) ==
    {i \in 1..(Len(t) - Len(sub) + 1) : SubSeq(t, i, i + Len(sub) - 1) = sub}

\* str.split(sep): cut at the occurrences of sep, left to right
RECURSIVE Split(_, _)
Split(t, sep) ==
    IF Occurrences(t, sep) = {} THEN <<t>>
    ELSE LET i == MinOf(Occurrences(t, sep))
         IN <<SubSeq(t, 1, i - 1)>> \o Split(SubSeq(t, i + Len(sep), Len(t)), sep)

\* t[n:]
Drop(t, n) == SubSeq(t, n + 1, Len(t))

\* local_model.py:147-152, the loop over the parts between code fences
RECURSIVE FenceLoop(_, _)
FenceLoop(parts, text) ==
    IF parts = <<>> THEN text
    ELSE IF StartsWith(Strip(Head(parts)), JsonTag)
         THEN FenceLoop(Tail(parts), Strip(Drop(Head(parts), 4)))
    ELSE IF StartsWith(Strip(Head(parts)), <<"{">>)
         THEN Strip(Head(parts))
    ELSE FenceLoop(Tail(parts), text)

\* str.find / str.rfind of one character, 0-based, -1 if absent
Find(t, c) == IF \E i \in 1..Len(t) : t[i] = c
              THEN MinOf({i \in 1..Len(t) : t[i] = c}) - 1 ELSE -1
RFind(t, c) == IF \E i \in 1..Len(t) : t[i] = c
               THEN (CHOOSE i \in 1..Len(t) : t[i] = c /\ \A j \in (i+1)..Len(t) : t[j] # c) - 1
               ELSE -1

\* LocalModelManager._clean_json_response
clean_json_response(raw) ==
    LET t0 == Strip(raw)
        t1 == IF Occurrences(t0, Fence) # {} THEN FenceLoop(Split(t0, Fence), t0) ELSE t0
        st == Find(t1, "{")
        en == RFind(t1, "}")
    IN IF st # -1 /\ en # -1 THEN SubSeq(t1, st + 1, en + 1) ELSE t1

\* nesting depth after each prefix of t
RECURSIVE Depth(_, _)
Depth(t, n) ==
    IF n = 0 THEN 0
    ELSE Depth(t, n - 1) + (IF t[n] = "{" THEN 1 ELSE IF t[n] = "}" THEN -1 ELSE 0)

\* json.loads accepts the text: one object, whose braces balance and close
\* only at the end, holding members, whitespace and nested objects
Decodes(text) ==
    LET t == Strip(text)
    IN /\ Len(t) >= 2
       /\ t[1] = "{"
       /\ \A i \in 1..Len(t) : t[i] \in {"{", "}", "m", Ws}
       /\ \A i \in 1..(Len(t) - 1) : Depth(t, i) > 0
       /\ Depth(t, Len(t)) = 0

\* the value json.loads returns, identified by the text it read
Parsed(text) == [kind |-> "parsed", value |-> Strip(text)]
Fallback == [kind |-> "fallback", value |-> <<>>]
NoResult == [kind |-> "none", value |-> <<>>]

\* the backend call inside generate() raised
BackendError == <<"!">>

\* what the backend may answer
Outputs == {
    <<"{", "m", "}">>,
    <<"p", "_", "{", "m", "m", "}", "_", "p">>,
    <<"b", "b", "b", "j", "s", "o", "n", "_", "{", "m", "{", "m", "}", "}", "_", "b", "b", "b">>,
    <<"p", "b", "b", "b", "{", "}", "b", "b", "b">>,
    <<"{", "m", "}", "p", "{", "m", "}">>,
    <<"{", "m">>,
    <<"p", "p">>,
    BackendError }

\* LocalModelManager.generate: the stripped completion, "" if the call raised
generate(answer) == IF answer = BackendError THEN <<>> ELSE Strip(answer)

\* local_model.py:119 `if attempt < retries`
ShouldRetryShort(a, r) == a < r - 1
ShouldRetry(a, r) == a < r

\* generate_json is not being called
GenIdle ==
    /\ gpc = "idle"
    /\ retries = 0
    /\ attempt = 0
    /\ calls = 0
    /\ script = <<>>
    /\ gresult = NoResult

\* entry of generate_json with some retries argument, against a backend
\* whose successive answers are script[1], script[2], ...
GenInit ==
    /\ gpc = "loop"
    /\ retries \in 0..MaxRetries
    /\ attempt = 0
    /\ calls = 0
    /\ script \in [1..(MaxRetries + 1) -> Outputs]
    /\ gresult = NoResult

\* one iteration of `for attempt in range(retries + 1)` (local_model.py:98-128)
gen_attempt ==
    /\ gpc = "loop"
    /\ attempt < retries + 1
    /\ calls' = calls + 1
    /\ LET text == clean_json_response(generate(script[calls + 1]))
       IN IF Decodes(text)
          THEN /\ gresult' = Parsed(text)
               /\ gpc' = "done"
               /\ UNCHANGED attempt
          ELSE IF ShouldRetry(attempt, retries)
          THEN /\ attempt' = attempt + 1
               /\ UNCHANGED <<gpc, gresult>>
          ELSE /\ gresult' = Fallback
               /\ gpc' = "done"
               /\ UNCHANGED attempt
    /\ UNCHANGED <<retries, script>>
    /\ UNCHANGED <<qvars, hvars, histvars, pvars, avars, phist, pobs, processed,
                   kvars, fvars, cvars, svars>>


\* ------------------------------------------------------------- AIClient

\* AIClient.provider (client.py:28-38)
Providers == {"claude", "openai", "local"}

\* the retries argument LocalModelManager.generate_json gets from AIClient,
\* which passes none (client.py:161, local_model.py:76)
DefaultRetries == 2

\* str.endswith
EndsWith(t, suf) == Len(t) >= Len(suf) /\ SubSeq(t, Len(t) - Len(suf) + 1, Len(t)) = suf

\* the cleaning of the cloud path, client.py:178-186
cloud_clean(raw) ==
    LET t0 == Strip(raw)
        t1 == IF StartsWith(t0, Fence \o JsonTag) THEN Drop(t0, 7) ELSE t0
        t2 == IF StartsWith(t1, Fence) THEN Drop(t1, 3) ELSE t1
        t3 == IF EndsWith(t2, Fence) THEN SubSeq(t2, 1, Len(t2) - 3) ELSE t2
    IN Strip(t3)

\* an exception left the call
RaisedError == [kind |-> "raised", value |-> <<>>]
\* the text generate() returned
Text(t) == [kind |-> "text", value |-> t]

\* AIClient.generate_json under provider claude or openai (client.py:163-191):
\* one generate() call, whose exception is re-raised, then json.loads, whose
\* JSONDecodeError is re-raised
client_generate_json_cloud ==
    /\ gpc = "loop"
    /\ provider # "local"
    /\ calls' = calls + 1
    /\ gpc' = "done"
    /\ LET answer == script[calls + 1]
           text == cloud_clean(answer)
       IN gresult' = IF answer = BackendError THEN RaisedError
                     ELSE IF Decodes(text) THEN Parsed(text)
                     ELSE RaisedError
    /\ UNCHANGED <<retries, attempt, script>>
    /\ UNCHANGED <<qvars, hvars, histvars, pvars, avars, phist, pobs, processed,
                   kvars, fvars, cvars, svars>>

\* AIClient.generate_json under provider local (client.py:160-161): one
\* iteration of the loop of LocalModelManager.generate_json
client_generate_json_local ==
    /\ provider = "local"
    /\ gen_attempt

\* AIClient.generate (client.py:84-142): the cloud providers' SDK call raises
\* and generate re-raises; LocalModelManager.generate (local_model.py:48-73)
\* catches the backend's exception and returns ""
client_generate ==
    /\ gpc = "gen"
    /\ calls' = calls + 1
    /\ gpc' = "done"
    /\ LET answer == script[calls + 1]
       IN gresult' = IF provider = "local" THEN Text(generate(answer))
                     ELSE IF answer = BackendError THEN RaisedError
                     ELSE Text(answer)
    /\ UNCHANGED <<retries, attempt, script>>
    /\ UNCHANGED <<qvars, hvars, histvars, pvars, avars, phist, pobs, processed,
                   kvars, fvars, cvars, svars>>

\* --------------------------------------------- AIProcessor.process_email

\* A JSON object the backend returned, by the keys the pipeline reads; Absent
\* stands for a key that is not there.  The values are classes of values:
\* "body" (the raw body of the message),
\* "0.5" and "0.3" (the confidences of the two intent fallbacks), "number"
\* (any other number), "text" (a string that is no ISO date), "iso" (a string that
\* datetime.fromisoformat accepts), "null", "empty" (the empty string).
Absent == "absent"
Dict(i, c, d, t, n, q, f) ==
    [intent |-> i, confidence |-> c, due_date |-> d, title |-> t,
     content |-> n, query_type |-> q, time_filter |-> f]
NoDict == Dict(Absent, Absent, Absent, Absent, Absent, Absent, Absent)

\* what a backend call of a stage may end in: the call raised ("fail"), the
\* text is no JSON ("garbage"), or it is a JSON object
IntentAnswers ==
    {Dict(i, c, Absent, Absent, Absent, Absent, Absent) :
        i \in {"ASSIGNMENT", "NOTE", "QUERY", "GENERAL", "OTHER", Absent},
        c \in {"number", Absent}}
AssignmentAnswers ==
    {Dict(Absent, Absent, d, t, Absent, Absent, Absent) :
        d \in {Absent, "null", "empty", "text", "iso"}, t \in {Absent, "text"}}
NoteAnswers ==
    {Dict(Absent, Absent, Absent, Absent, n, Absent, Absent) :
        n \in {Absent, "null", "empty", "text"}}
QueryAnswers ==
    {Dict(Absent, Absent, Absent, Absent, Absent, q, f) :
        q \in {Absent, "assignments_due", "class_info", "general"},
        f \in {Absent, "null", "today", "tomorrow", "this_week", "next_week",
               "all", "text"}}
Json(S) == {[kind |-> "json", value |-> d] : d \in S}
Failures == {[kind |-> k, value |-> NoDict] : k \in {"fail", "garbage"}}

\* the fallback values of the stages in processor.py
\* classify_intent, processor.py:75-79
IntentFallback == Dict("GENERAL", "0.5", Absent, Absent, Absent, Absent, Absent)
\* extract_assignment_entities, processor.py:104-110
AssignmentFallback == Dict(Absent, Absent, "null", "text", Absent, Absent, Absent)
\* extract_note_entities, processor.py:134-139
NoteFallback == Dict(Absent, Absent, Absent, Absent, "body", Absent, Absent)
\* process_query, processor.py:374-379
QueryFallback == Dict(Absent, Absent, Absent, Absent, Absent, "general", "null")
StageFallback(stage) ==
    CASE stage = "intent" -> IntentFallback
      [] stage = "assignment" -> AssignmentFallback
      [] stage = "note" -> NoteFallback
      [] stage = "query" -> QueryFallback

\* the keywords of _get_fallback_structure found in JARVIS_SYSTEM_PROMPT
\* ("Organize notes/assignments") and in the prompt of each stage
SystemWords == {"note", "assignment"}
StageWords(stage) ==
    CASE stage = "intent" -> {"classify", "intent", "note", "assignment", "query"}
      [] stage = "assignment" -> {"assignment", "due_date"}
      [] stage = "note" -> {"note"}
      [] stage = "query" -> {"query", "assignment", "note"}

\* LocalModelManager._get_fallback_structure on the lowercased prompts
get_fallback_structure_note_first(kw) ==
    IF "intent" \in kw \/ "classify" \in kw
    THEN Dict("GENERAL", "0.3", Absent, Absent, Absent, Absent, Absent)
    ELSE IF "note" \in kw
    THEN Dict(Absent, Absent, Absent, Absent, "text", Absent, Absent)
    ELSE IF "due_date" \in kw \/ "assignment" \in kw
    THEN Dict(Absent, Absent, "null", "text", Absent, Absent, Absent)
    ELSE IF "query" \in kw
    THEN Dict(Absent, Absent, Absent, Absent, Absent, "general", Absent)
    ELSE NoDict
get_fallback_structure(kw) ==
    IF "intent" \in kw \/ "classify" \in kw
    THEN Dict("GENERAL", "0.3", Absent, Absent, Absent, Absent, Absent)
    ELSE IF "due_date" \in kw \/ "assignment" \in kw
    THEN Dict(Absent, Absent, "null", "text", Absent, Absent, Absent)
    ELSE IF "note" \in kw
    THEN Dict(Absent, Absent, Absent, Absent, "text", Absent, Absent)
    ELSE IF "query" \in kw
    THEN Dict(Absent, Absent, Absent, Absent, Absent, "general", Absent)
    ELSE NoDict

\* AIClient.generate_json (client.py:144-191): the local provider never
\* raises and answers a failure with its keyword fallback; the cloud
\* providers raise on a failed call and on undecodable text
generate_json(prov, stage, w, answer) ==
    IF answer.kind # "json"
    THEN IF prov = "local"
         THEN [raised |-> FALSE,
               value |-> get_fallback_structure(SystemWords \cup StageWords(stage) \cup w)]
         ELSE [raised |-> TRUE, value |-> NoDict]
    ELSE [raised |-> FALSE, value |-> answer.value]

\* the try/except of a stage around generate_json
StageJson(prov, stage, w, answer) ==
    LET r == generate_json(prov, stage, w, answer)
    IN IF r.raised THEN StageFallback(stage) ELSE r.value

\* the dictionary process_email returns; Raised: it raised instead
Outcome(s, e, m) == [success |-> s, error |-> e, message |-> m]
NoOutcome == Outcome(FALSE, "none", Absent)
Raised == Outcome(FALSE, "raised", Absent)

\* `if not entities.get('due_date')`, processor.py:158
Truthy(v) == v \notin {Absent, "null", "empty"}
\* datetime.fromisoformat(entities['due_date']) returns, processor.py:170
IsoParsesAny(v) == TRUE
IsoParses(v) == v = "iso"

\* the message id the pipeline is run on
PipeMsg == 1

PipeIdle ==
    /\ kpc = "idle"
    /\ provider = "claude"
    /\ words = {}
    /\ intent_result = NoDict
    /\ entities = NoDict
    /\ query_analysis = NoDict
    /\ result = NoOutcome
    /\ sent = "none"
    /\ persisted = {}
    /\ failures = {}
    /\ undecoded = {}
    /\ note_content = "none"
    /\ days = 0
    /\ assignment_row = NoRow
    /\ confirmation = NoConfirmation
    /\ branch = "none"

\* entry of _process_email_worker for one message
PipeInit ==
    /\ kpc = "classify"
    /\ provider \in Providers
    /\ words \in SUBSET {"intent"}
    /\ intent_result = NoDict
    /\ entities = NoDict
    /\ query_analysis = NoDict
    /\ result = NoOutcome
    /\ sent = "none"
    /\ persisted = {}
    /\ failures = {}
    /\ undecoded = {}
    /\ note_content = "none"
    /\ days = 0
    /\ assignment_row = NoRow
    /\ confirmation = NoConfirmation
    /\ branch = "none"

Fail(stage, answer) == IF answer.kind = "fail" THEN {stage} ELSE {}
Garbage(stage, answer) == IF answer.kind = "garbage" THEN {stage} ELSE {}

\* `{confidence:.2f}` formats the value, processor.py:471
IsNumber(c) == c \in {"number", "0.5", "0.3"}

\* the if/elif/else on the intent, processor.py:474-484
BranchKnownOnly(intent) ==
    IF intent \in {"ASSIGNMENT", "NOTE", "QUERY", "GENERAL"}
    THEN intent ELSE "QUERY"
Branch(intent) ==
    IF intent \in {"ASSIGNMENT", "NOTE", "QUERY"} THEN intent ELSE "GENERAL"

\* process_email, processor.py:461-498: classify, read intent and
\* confidence, dispatch on the intent
pipe_classify(answer) ==
    /\ UNCHANGED <<note_content, days, assignment_row, confirmation>>
    /\ undecoded' = undecoded \cup Garbage("intent", answer)
    /\ kpc = "classify"
    /\ failures' = failures \cup Fail("intent", answer)
    /\ LET ir == StageJson(provider, "intent", words, answer)
       IN /\ intent_result' = ir
          /\ IF ir.intent = Absent \/ ~IsNumber(ir.confidence)
             THEN kpc' = "raised" /\ result' = Raised /\ UNCHANGED branch
             ELSE IF Branch(ir.intent) # "GENERAL"
             THEN /\ kpc' = "stage"
                  /\ branch' = Branch(ir.intent)
                  /\ UNCHANGED result
             ELSE /\ kpc' = "returned"
                  /\ branch' = "GENERAL"
                  /\ result' = Outcome(TRUE, "none", "acknowledged")
    /\ UNCHANGED <<provider, words, entities, query_analysis, sent, persisted>>
    /\ UNCHANGED processed

\* Due dates are counted in whole hours from datetime.min; the minutes of a
\* date pass through `timedelta(hours=24)` and strftime untouched.
MaxHour == 50
DueHours == 0..MaxHour

\* strftime("%B %d ... at %I:%M %p"), processor.py:204,206: the calendar day
\* and the 12-hour clock reading with its AM/PM mark
Stamp(h) ==
    [day |-> h \div 24, hour |-> (((h % 24) + 11) % 12) + 1, pm |-> (h % 24) >= 12]

\* `reminder_date = due_date - timedelta(hours=24)`, processor.py:205
reminder_date(due_date) == due_date - 24

\* datetime arithmetic below datetime.min raises OverflowError
Representable(h) == h >= 0

\* process_assignment, processor.py:141-219
pipe_assignment(answer, dbOk, due) ==
    /\ UNCHANGED <<note_content, days>>
    /\ undecoded' = undecoded \cup Garbage("assignment", answer)
    /\ kpc = "stage"
    /\ branch = "ASSIGNMENT"
    /\ LET e == StageJson(provider, "assignment", words, answer)
       IN /\ entities' = e
          /\ IF ~Truthy(e.due_date)
             THEN /\ result' = Outcome(FALSE, "no_due_date", "explanation")
                  /\ kpc' = "returned"
                  /\ UNCHANGED <<persisted, assignment_row, confirmation>>
                  /\ failures' = failures \cup Fail("assignment", answer)
             ELSE IF ~IsoParses(e.due_date)
             THEN /\ result' = Outcome(FALSE, "invalid_due_date", "explanation")
                  /\ kpc' = "returned"
                  /\ UNCHANGED <<persisted, assignment_row, confirmation>>
                  /\ failures' = failures \cup Fail("assignment", answer)
             ELSE IF ~dbOk
             THEN /\ result' = Raised
                  /\ kpc' = "raised"
                  /\ UNCHANGED <<persisted, assignment_row, confirmation>>
                  /\ failures' = failures \cup Fail("assignment", answer) \cup {"db"}
             ELSE IF e.title = Absent
             THEN /\ result' = Raised
                  /\ kpc' = "raised"
                  /\ persisted' = persisted \cup {"class"}
                  /\ failures' = failures \cup Fail("assignment", answer)
                  /\ UNCHANGED <<assignment_row, confirmation>>
             ELSE IF ~Representable(reminder_date(due))
             THEN /\ result' = Raised
                  /\ kpc' = "raised"
                  /\ persisted' = persisted \cup {"class", "assignment"}
                  /\ assignment_row' = [due_date |-> due, reminder_hours |-> 24]
                  /\ failures' = failures \cup Fail("assignment", answer)
                  /\ UNCHANGED confirmation
             ELSE /\ result' = Outcome(TRUE, "none", "confirmation")
                  /\ kpc' = "returned"
                  /\ persisted' = persisted \cup {"class", "assignment"}
                  /\ assignment_row' = [due_date |-> due, reminder_hours |-> 24]
                  /\ confirmation' = [due |-> Stamp(due),
                                      reminder |-> Stamp(reminder_date(due))]
                  /\ failures' = failures \cup Fail("assignment", answer)
    /\ UNCHANGED <<provider, words, intent_result, query_analysis, sent, branch>>
    /\ UNCHANGED processed

\* `entities.get('content', body)`, processor.py:237
GetContentOrBody(e) == IF e.content = Absent THEN "body" ELSE e.content

\* process_note, processor.py:221-307: a null content fails the NOT NULL
\* column of Notes.create
pipe_note(answer, dbOk) ==
    /\ UNCHANGED <<days, assignment_row, confirmation>>
    /\ undecoded' = undecoded \cup Garbage("note", answer)
    /\ kpc = "stage"
    /\ branch = "NOTE"
    /\ LET e == StageJson(provider, "note", words, answer)
       IN /\ entities' = e
          /\ note_content' = GetContentOrBody(e)
          /\ IF ~dbOk
             THEN /\ result' = Raised
                  /\ kpc' = "raised"
                  /\ UNCHANGED persisted
                  /\ failures' = failures \cup Fail("note", answer) \cup {"db"}
             ELSE IF GetContentOrBody(e) = "null"
             THEN /\ result' = Raised
                  /\ kpc' = "raised"
                  /\ persisted' = persisted \cup {"class"}
                  /\ failures' = failures \cup Fail("note", answer)
             ELSE /\ result' = Outcome(TRUE, "none", "confirmation")
                  /\ kpc' = "returned"
                  /\ persisted' = persisted \cup {"class", "note"}
                  /\ failures' = failures \cup Fail("note", answer)
    /\ UNCHANGED <<provider, words, intent_result, query_analysis, sent, branch>>
    /\ UNCHANGED processed

\* the chain of conditional expressions on time_filter, processor.py:387-390
Days(f) ==
    IF f = "today" THEN 1
    ELSE IF f = "tomorrow" THEN 1
    ELSE IF f = "this_week" THEN 7
    ELSE IF f = "next_week" THEN 14
    ELSE 30

\* process_query up to the data lookup, processor.py:362-431
pipe_query(answer, dbOk) ==
    /\ UNCHANGED <<note_content, assignment_row, confirmation>>
    /\ undecoded' = undecoded \cup Garbage("query", answer)
    /\ kpc = "stage"
    /\ branch = "QUERY"
    /\ LET q == StageJson(provider, "query", words, answer)
       IN /\ query_analysis' = q
          /\ IF \/ q.query_type = Absent
                \/ q.query_type = "assignments_due" /\ q.time_filter = Absent
             THEN /\ result' = Raised
                  /\ kpc' = "raised"
                  /\ failures' = failures \cup Fail("query", answer)
                  /\ UNCHANGED days
             ELSE IF ~dbOk /\ q.query_type # "general"
             THEN /\ result' = Raised
                  /\ kpc' = "raised"
                  /\ failures' = failures \cup Fail("query", answer) \cup {"db"}
                  /\ days' = IF q.query_type = "assignments_due"
                             THEN Days(q.time_filter) ELSE days
             ELSE /\ kpc' = "respond"
                  /\ UNCHANGED result
                  /\ failures' = failures \cup Fail("query", answer)
                  /\ days' = IF q.query_type = "assignments_due"
                             THEN Days(q.time_filter) ELSE days
    /\ UNCHANGED <<provider, words, intent_result, entities, sent, persisted, branch>>
    /\ UNCHANGED processed

\* process_query, processor.py:433-449: the response text; a failed call
\* raises in the cloud providers (fallback text) and yields "" in the local one
pipe_respond(answer) ==
    /\ UNCHANGED <<undecoded, note_content, days, assignment_row, confirmation>>
    /\ kpc = "respond"
    /\ failures' = failures \cup (IF answer = "fail" THEN {"respond"} ELSE {})
    /\ result' = Outcome(TRUE, "none",
                         IF answer = "text" THEN "response"
                         ELSE IF provider = "local" THEN "empty" ELSE "fallback")
    /\ kpc' = "returned"
    /\ UNCHANGED <<provider, words, intent_result, entities, query_analysis,
                   sent, persisted, branch>>
    /\ UNCHANGED processed

\* `if result.get('success')`, main.py:189
SuccessAlways(r) == TRUE
Success(r) == r.success

\* _process_email_worker after process_email, main.py:188-217: hand the
\* confirmation or the explanation to send_confirmation, which reports a
\* failed send by its return value only; an exception of process_email is
\* logged and nothing is sent
pipe_send ==
    /\ UNCHANGED <<undecoded, note_content, days, assignment_row, confirmation>>
    /\ kpc \in {"returned", "raised"}
    /\ IF kpc = "raised"
       THEN kpc' = "done" /\ UNCHANGED sent
       ELSE IF Success(result)
       THEN sent' = "confirmation" /\ kpc' = "mark"
       ELSE sent' = "explanation" /\ kpc' = "done"
    /\ UNCHANGED <<provider, words, intent_result, entities, query_analysis,
                   result, persisted, failures, branch>>
    /\ UNCHANGED processed

\* _process_email_worker, main.py:199-202: ProcessedEmails.create after the
\* confirmation was sent; a database error is caught by the worker's except
pipe_mark(dbOk) ==
    /\ UNCHANGED <<undecoded, note_content, days, assignment_row, confirmation>>
    /\ kpc = "mark"
    /\ kpc' = "done"
    /\ IF dbOk
       THEN processed' = processed \cup {PipeMsg} /\ UNCHANGED failures
       ELSE failures' = failures \cup {"db"} /\ UNCHANGED processed
    /\ UNCHANGED <<provider, words, intent_result, entities, query_analysis,
                   result, sent, persisted, branch>>

\* ------------------------- LocalModelManager._get_fallback_structure

\* most words of a user prompt
MaxWords == 2

\* the structures _get_fallback_structure returns, by the keys the pipeline
\* reads (local_model.py:176-207); the generic one holds none of them
IntentLocalFallback == Dict("GENERAL", "0.3", Absent, Absent, Absent, Absent, Absent)
AssignmentLocalFallback == Dict(Absent, Absent, "null", "text", Absent, Absent, Absent)
NoteLocalFallback == Dict(Absent, Absent, Absent, Absent, "text", Absent, Absent)
QueryLocalFallback == Dict(Absent, Absent, Absent, Absent, Absent, "general", Absent)

\* Prompt text is a sequence of characters.  The words prompts are made of:
\* the keywords in the spellings the prompts of prompts.py and mail texts
\* use them in, and a word that holds no keyword
Vocabulary == {
    <<"I", "N", "T", "E", "N", "T">>,
    <<"C", "l", "a", "s", "s", "i", "f", "y">>,
    <<"d", "u", "e", "_", "d", "a", "t", "e">>,
    <<"A", "s", "s", "i", "g", "n", "m", "e", "n", "t", "s">>,
    <<"N", "o", "t", "e", "s">>,
    <<"Q", "u", "e", "r", "y">>,
    <<"h", "i">> }

\* words joined by single spaces
RECURSIVE Join(_)
Join(ws) ==
    IF ws = <<>> THEN <<>>
    ELSE IF Len(ws) = 1 THEN Head(ws)
    ELSE Head(ws) \o <<" ">> \o Join(Tail(ws))

Phrases(n) == {Join(ws) : ws \in UNION {[1..k -> Vocabulary] : k \in 0..n}}

\* str.lower, on the letters of the vocabulary
LowerChar(c) ==
    CASE c = "A" -> "a" [] c = "C" -> "c" [] c = "E" -> "e" [] c = "I" -> "i"
      [] c = "N" -> "n" [] c = "Q" -> "q" [] c = "T" -> "t" [] OTHER -> c
Lower(t) == [i \in 1..Len(t) |-> LowerChar(t[i])]

\* the keywords _get_fallback_structure looks for, as text
KeyText(k) ==
    CASE k = "intent" -> <<"i", "n", "t", "e", "n", "t">>
      [] k = "classify" -> <<"c", "l", "a", "s", "s", "i", "f", "y">>
      [] k = "due_date" -> <<"d", "u", "e", "_", "d", "a", "t", "e">>
      [] k = "assignment" -> <<"a", "s", "s", "i", "g", "n", "m", "e", "n", "t">>
      [] k = "note" -> <<"n", "o", "t", "e">>
      [] k = "query" -> <<"q", "u", "e", "r", "y">>
KeyNames == {"intent", "classify", "due_date", "assignment", "note", "query"}

\* `k in combined` for every keyword k
KeywordsIn(combined) == {k \in KeyNames : Occurrences(combined, KeyText(k)) # {}}

\* combined = (system_prompt + " " + user_prompt).lower(), local_model.py:173
Combined(sp, up) == Lower(sp \o <<" ">> \o up)

FallbackIdle ==
    /\ fpc = "idle"
    /\ system_prompt = <<>>
    /\ user_prompt = <<>>
    /\ fallback = NoDict

\* entry of _get_fallback_structure with some prompts
FallbackInit ==
    /\ fpc = "call"
    /\ system_prompt \in Phrases(1)
    /\ user_prompt \in Phrases(MaxWords)
    /\ fallback = NoDict

\* _get_fallback_structure(system_prompt, user_prompt), local_model.py:162-215
fallback_call ==
    /\ fpc = "call"
    /\ fpc' = "done"
    /\ fallback' = get_fallback_structure(KeywordsIn(Combined(system_prompt, user_prompt)))
    /\ UNCHANGED <<system_prompt, user_prompt>>
    /\ UNCHANGED <<qvars, hvars, histvars, pvars, avars, phist, pobs, processed,
                   gvars, kvars, cvars, svars>>

\* the same prompts given to _get_fallback_structure once more
fallback_again ==
    /\ fpc = "done"
    /\ fpc' = "call"
    /\ UNCHANGED <<system_prompt, user_prompt, fallback>>
    /\ UNCHANGED <<qvars, hvars, histvars, pvars, avars, phist, pobs, processed,
                   gvars, kvars, cvars, svars>>

\* ------------------------------------------------------------- UniHelper

\* the process is alive: the worker is a daemon thread (queue.py:45) and
\* ends with the main thread
ProcessAlive == apc \notin {"done", "exited"}

\* UniHelper.stop (main.py:267-276) up to the queue's join: entered from the
\* finally of start() once start_polling returned, or from signal_handler,
\* which runs on the main thread wherever the poll loop is
app_stop(bySignal) ==
    /\ apc = "polling"
    /\ app_running
    /\ IF bySignal THEN ppc # "returned" ELSE ppc = "returned"
    /\ stop_call
    /\ apc' = IF bySignal THEN "stopping_sig" ELSE "stopping"
    /\ UNCHANGED <<app_running, pvars, phist, pobs, processed, gvars, kvars, fvars, cvars, svars>>

\* the join inside processing_queue.stop(timeout=30) returns
app_stop_join ==
    /\ apc \in {"stopping", "stopping_sig"}
    /\ (stop_joined \/ stop_timeout)
    /\ UNCHANGED <<avars, pvars, phist, pobs, processed, gvars, kvars, fvars, cvars, svars>>

\* UniHelper.stop (main.py:278-287) after the queue stopped: stop_polling,
\* running = False; then start() returns, or signal_handler calls sys.exit
app_stop_finish ==
    /\ apc \in {"stopping", "stopping_sig"}
    /\ cpc = "idle"
    /\ is_running' = FALSE
    /\ app_running' = FALSE
    /\ apc' = IF apc = "stopping" THEN "done" ELSE "exited"
    /\ UNCHANGED <<ppc, consecutive_failures, retry_delay, session, batch, phist>>
    /\ UNCHANGED <<qvars, hvars, histvars, pobs, processed, gvars, kvars, fvars, cvars, svars>>

\* the state after UniHelper.initialize and `self.running = True`
\* (main.py:118-119, 240): queue started with its one worker, poller connected
AppInit ==
    /\ running = TRUE
    /\ queue = <<>>
    /\ unfinished = 0
    /\ total_processed = 0
    /\ total_errors = 0
    /\ worker_thread = 1
    /\ wpc = [w \in Workers |-> IF w = 1 THEN "check" ELSE "none"]
    /\ witem = [w \in Workers |-> NoItem]
    /\ cpc = "idle"
    /\ lastStop = "none"
    /\ app_running = TRUE
    /\ apc = "polling"

\* no message has been recorded as processed
DbInit == processed = {}

Init == AppInit /\ HandlerInit /\ HistInit /\ CountIdle /\ SchedIdle /\ PollerInit /\ DbInit /\ GenIdle /\ PipeIdle /\ FallbackIdle

\* the application as main.py wires it: the main thread runs the poll loop
\* and the handler, one worker thread drains the queue
Next ==
    \/ apc = "polling" /\ poll_loop /\ UNCHANGED <<avars, processed, gvars, kvars, fvars, cvars, svars>>
    \/ apc = "polling" /\ poll_transport_error /\ UNCHANGED <<avars, processed, gvars, kvars, fvars, cvars, svars>>
    \/ apc = "polling" /\ poll_empty /\ UNCHANGED <<avars, processed, gvars, kvars, fvars, cvars, svars>>
    \/ \E n \in 1..MaxMsgs : apc = "polling" /\ poll_found(n) /\ UNCHANGED <<avars, processed, gvars, kvars, fvars, cvars, svars>>
    \/ \E ok \in BOOLEAN : apc = "polling" /\ poll_visit(ok) /\ UNCHANGED <<avars, processed, gvars, kvars, fvars, cvars, svars>>
    \/ apc = "polling" /\ poll_check_raises /\ UNCHANGED <<avars, processed, gvars, kvars, fvars, cvars, svars>>
    \/ apc = "polling" /\ poll_batch_done /\ UNCHANGED <<avars, processed, gvars, kvars, fvars, cvars, svars>>
    \/ apc = "polling" /\ poll_sleep /\ UNCHANGED <<avars, processed, gvars, kvars, fvars, cvars, svars>>
    \/ apc = "polling" /\ poll_unexpected /\ UNCHANGED <<avars, processed, gvars, kvars, fvars, cvars, svars>>
    \/ apc = "polling" /\ poll_backoff /\ UNCHANGED <<avars, processed, gvars, kvars, fvars, cvars, svars>>
    \/ \E ok \in BOOLEAN : apc = "polling" /\ poll_reconnect(ok) /\ UNCHANGED <<avars, processed, gvars, kvars, fvars, cvars, svars>>
    \/ \E ok \in BOOLEAN : apc = "polling" /\ poll_reconnect_x(ok) /\ UNCHANGED <<avars, processed, gvars, kvars, fvars, cvars, svars>>
    \/ apc = "polling" /\ poll_return /\ UNCHANGED <<avars, processed, gvars, kvars, fvars, cvars, svars>>
    \/ apc = "polling" /\ handler_check /\ UNCHANGED <<avars, pvars, phist, pobs, processed, gvars, kvars, fvars, cvars, svars>>
    \/ apc = "polling" /\ handler_submit /\ UNCHANGED <<avars, pvars, phist, pobs, processed, gvars, kvars, fvars, cvars, svars>>
    \/ apc = "polling" /\ handler_put /\ UNCHANGED <<avars, pvars, phist, pobs, processed, gvars, kvars, fvars, cvars, svars>>
    \/ \E w \in Workers : ProcessAlive /\ worker_check(w) /\ UNCHANGED <<avars, pvars, phist, pobs, processed, gvars, kvars, fvars, cvars, svars>>
    \/ \E w \in Workers : ProcessAlive /\ worker_get_empty(w) /\ UNCHANGED <<avars, pvars, phist, pobs, processed, gvars, kvars, fvars, cvars, svars>>
    \/ \E w \in Workers : ProcessAlive /\ worker_get(w) /\ UNCHANGED <<avars, pvars, phist, pobs, processed, gvars, kvars, fvars, cvars, svars>>
    \/ \E w \in Workers : ProcessAlive /\ worker_callback_ok(w) /\ UNCHANGED <<avars, pvars, phist, pobs, processed, gvars, kvars, fvars, cvars, svars>>
    \/ \E s \in BOOLEAN : app_stop(s)
    \/ app_stop_join
    \/ app_stop_finish

Spec == Init /\ [][Next]_vars

\* ------------------------ ProcessingQueue under an arbitrary calling thread

\* no application around the queue: the poll loop and UniHelper are idle
LibInit ==
    /\ ppc = "none"
    /\ is_running = FALSE
    /\ consecutive_failures = 0
    /\ retry_delay = RetryFloor
    /\ session = "dead"
    /\ batch = <<>>
    /\ failStreak = 0
    /\ lastWait = 0
    /\ lastEvent = "none"
    /\ plog = <<>>
    /\ pollCause = "none"
    /\ stopAt = "none"
    /\ pollBase = <<0, 0>>
    /\ app_running = FALSE
    /\ apc = "lib"

InitQueue == QueueInit /\ HandlerInit /\ HistInit /\ CountIdle /\ SchedIdle /\ LibInit /\ DbInit /\ GenIdle /\ PipeIdle /\ FallbackIdle

\* some poll hands the next unseen message to the handler
deliver ==
    /\ nextId <= MaxItems
    /\ nextId' = nextId + 1
    /\ \E parseOk \in BOOLEAN : handler_enter(nextId, parseOk)
    /\ UNCHANGED <<submitted, started, ran, afterStop, lastStart, lastSubmit>>
    /\ UNCHANGED qvars

NextQueue ==
    \/ start /\ UNCHANGED <<avars, pvars, phist, pobs, processed, gvars, kvars, fvars, cvars, svars>>
    \/ stop_call /\ UNCHANGED <<avars, pvars, phist, pobs, processed, gvars, kvars, fvars, cvars, svars>>
    \/ stop_joined /\ UNCHANGED <<avars, pvars, phist, pobs, processed, gvars, kvars, fvars, cvars, svars>>
    \/ stop_timeout /\ UNCHANGED <<avars, pvars, phist, pobs, processed, gvars, kvars, fvars, cvars, svars>>
    \/ submit /\ UNCHANGED <<avars, pvars, phist, pobs, processed, gvars, kvars, fvars, cvars, svars>>
    \/ \E w \in Workers : worker_check(w) /\ UNCHANGED <<avars, pvars, phist, pobs, processed, gvars, kvars, fvars, cvars, svars>>
    \/ \E w \in Workers : worker_get_empty(w) /\ UNCHANGED <<avars, pvars, phist, pobs, processed, gvars, kvars, fvars, cvars, svars>>
    \/ \E w \in Workers : worker_get(w) /\ UNCHANGED <<avars, pvars, phist, pobs, processed, gvars, kvars, fvars, cvars, svars>>
    \/ \E w \in Workers : worker_callback_ok(w) /\ UNCHANGED <<avars, pvars, phist, pobs, processed, gvars, kvars, fvars, cvars, svars>>
    \/ \E w \in Workers : worker_callback_raise(w) /\ UNCHANGED <<avars, pvars, phist, pobs, processed, gvars, kvars, fvars, cvars, svars>>
    \/ deliver /\ UNCHANGED <<avars, pvars, phist, pobs, processed, gvars, kvars, fvars, cvars, svars>>
    \/ handler_check /\ UNCHANGED <<avars, pvars, phist, pobs, processed, gvars, kvars, fvars, cvars, svars>>
    \/ handler_submit /\ UNCHANGED <<avars, pvars, phist, pobs, processed, gvars, kvars, fvars, cvars, svars>>
    \/ handler_put /\ UNCHANGED <<avars, pvars, phist, pobs, processed, gvars, kvars, fvars, cvars, svars>>
    \/ handler_direct_done /\ UNCHANGED <<avars, pvars, phist, pobs, processed, gvars, kvars, fvars, cvars, svars>>

SpecQueue == InitQueue /\ [][NextQueue]_vars

\* the queue with its controlling thread and its consumers only, under the
\* scheduling the code relies on: join(timeout) returns when the thread has
\* exited or the timeout has elapsed (queue.py:69), and a consumer that is
\* not inside a callback takes its next step, the dequeue giving up after
\* its timeout of one second (queue.py:139-141); a callback may run forever
StopReturns ==
    (stop_joined \/ stop_timeout) /\ UNCHANGED <<avars, pvars, phist, pobs, processed, gvars, kvars, fvars, cvars, svars>>
ConsumerStep(w) ==
    (worker_check(w) \/ worker_get_empty(w) \/ worker_get(w)) /\ UNCHANGED <<avars, pvars, phist, pobs, processed, gvars, kvars, fvars, cvars, svars>>

NextStop ==
    \/ start /\ UNCHANGED <<avars, pvars, phist, pobs, processed, gvars, kvars, fvars, cvars, svars>>
    \/ stop_call /\ UNCHANGED <<avars, pvars, phist, pobs, processed, gvars, kvars, fvars, cvars, svars>>
    \/ stop_joined /\ UNCHANGED <<avars, pvars, phist, pobs, processed, gvars, kvars, fvars, cvars, svars>>
    \/ stop_timeout /\ UNCHANGED <<avars, pvars, phist, pobs, processed, gvars, kvars, fvars, cvars, svars>>
    \/ submit /\ UNCHANGED <<avars, pvars, phist, pobs, processed, gvars, kvars, fvars, cvars, svars>>
    \/ \E w \in Workers : worker_check(w) /\ UNCHANGED <<avars, pvars, phist, pobs, processed, gvars, kvars, fvars, cvars, svars>>
    \/ \E w \in Workers : worker_get_empty(w) /\ UNCHANGED <<avars, pvars, phist, pobs, processed, gvars, kvars, fvars, cvars, svars>>
    \/ \E w \in Workers : worker_get(w) /\ UNCHANGED <<avars, pvars, phist, pobs, processed, gvars, kvars, fvars, cvars, svars>>
    \/ \E w \in Workers : worker_callback_ok(w) /\ UNCHANGED <<avars, pvars, phist, pobs, processed, gvars, kvars, fvars, cvars, svars>>
    \/ \E w \in Workers : worker_callback_raise(w) /\ UNCHANGED <<avars, pvars, phist, pobs, processed, gvars, kvars, fvars, cvars, svars>>

SpecStop ==
    /\ InitQueue /\ [][NextStop]_vars
    /\ WF_vars(StopReturns)
    /\ \A w \in Workers : WF_vars(ConsumerStep(w))

\* the queue with its controlling thread and its consumers, every start()
\* call recorded
NextStart ==
    \/ start_observed /\ UNCHANGED <<avars, pvars, phist, pobs, processed, gvars, kvars, fvars, cvars, svars>>
    \/ stop_call /\ UNCHANGED <<avars, pvars, phist, pobs, processed, gvars, kvars, fvars, cvars, svars>>
    \/ stop_joined /\ UNCHANGED <<avars, pvars, phist, pobs, processed, gvars, kvars, fvars, cvars, svars>>
    \/ stop_timeout /\ UNCHANGED <<avars, pvars, phist, pobs, processed, gvars, kvars, fvars, cvars, svars>>
    \/ submit /\ UNCHANGED <<avars, pvars, phist, pobs, processed, gvars, kvars, fvars, cvars, svars>>
    \/ \E w \in Workers : worker_check(w) /\ UNCHANGED <<avars, pvars, phist, pobs, processed, gvars, kvars, fvars, cvars, svars>>
    \/ \E w \in Workers : worker_get_empty(w) /\ UNCHANGED <<avars, pvars, phist, pobs, processed, gvars, kvars, fvars, cvars, svars>>
    \/ \E w \in Workers : worker_get(w) /\ UNCHANGED <<avars, pvars, phist, pobs, processed, gvars, kvars, fvars, cvars, svars>>
    \/ \E w \in Workers : worker_callback_ok(w) /\ UNCHANGED <<avars, pvars, phist, pobs, processed, gvars, kvars, fvars, cvars, svars>>
    \/ \E w \in Workers : worker_callback_raise(w) /\ UNCHANGED <<avars, pvars, phist, pobs, processed, gvars, kvars, fvars, cvars, svars>>

SpecStart == InitQueue /\ [][NextStart]_vars

\* ------------------------------- the consumers' counters, statement by step

\* _worker: the callback returned (queue.py:154) or raised (queue.py:162);
\* `self.total_processed += 1` (queue.py:157) or `self.total_errors += 1`
\* (queue.py:164) loads the attribute.  No lock guards the counters, and a
\* consumer that outlived stop() runs beside the one a later start() spawned.
worker_count_load(w) ==
    /\ wpc[w] = "callback"
    /\ wread[w].phase = "none"
    /\ \E how \in {"ok", "err"} :
          /\ how = "err" => witem[w].cb = "client"
          /\ wread' = [wread EXCEPT ![w] =
                          [phase |-> how,
                           value |-> IF how = "ok" THEN total_processed
                                     ELSE total_errors]]
    /\ UNCHANGED <<qvars, hvars, histvars>>

\* the += stores the loaded value plus one; finally: task_done() (queue.py:171)
worker_count_store(w) ==
    /\ wpc[w] = "callback"
    /\ wread[w].phase # "none"
    /\ IF wread[w].phase = "ok"
       THEN total_processed' = wread[w].value + 1 /\ UNCHANGED total_errors
       ELSE total_errors' = wread[w].value + 1 /\ UNCHANGED total_processed
    /\ unfinished' = unfinished - 1
    /\ witem' = [witem EXCEPT ![w] = NoItem]
    /\ wpc' = [wpc EXCEPT ![w] = "check"]
    /\ wread' = [wread EXCEPT ![w] = NoRead]
    /\ UNCHANGED <<running, queue, worker_thread, cpc, lastStop>>
    /\ UNCHANGED <<hvars, histvars>>

\* the queue with its controlling thread and its consumers
NextCount ==
    \/ start /\ UNCHANGED <<avars, pvars, phist, pobs, processed, gvars, kvars, fvars, cvars, svars>>
    \/ stop_call /\ UNCHANGED <<avars, pvars, phist, pobs, processed, gvars, kvars, fvars, cvars, svars>>
    \/ stop_joined /\ UNCHANGED <<avars, pvars, phist, pobs, processed, gvars, kvars, fvars, cvars, svars>>
    \/ stop_timeout /\ UNCHANGED <<avars, pvars, phist, pobs, processed, gvars, kvars, fvars, cvars, svars>>
    \/ submit /\ UNCHANGED <<avars, pvars, phist, pobs, processed, gvars, kvars, fvars, cvars, svars>>
    \/ \E w \in Workers : worker_check(w) /\ UNCHANGED <<avars, pvars, phist, pobs, processed, gvars, kvars, fvars, cvars, svars>>
    \/ \E w \in Workers : worker_get_empty(w) /\ UNCHANGED <<avars, pvars, phist, pobs, processed, gvars, kvars, fvars, cvars, svars>>
    \/ \E w \in Workers : worker_get(w) /\ UNCHANGED <<avars, pvars, phist, pobs, processed, gvars, kvars, fvars, cvars, svars>>
    \/ \E w \in Workers : worker_count_load(w) /\ UNCHANGED <<avars, pvars, phist, pobs, processed, gvars, kvars, fvars, svars>>
    \/ \E w \in Workers : worker_count_store(w) /\ UNCHANGED <<avars, pvars, phist, pobs, processed, gvars, kvars, fvars, svars>>

SpecCount == InitQueue /\ [][NextCount]_vars

\* --------------------------- ReminderScheduler.check_and_send_reminders

\* most reminder checks followed
MaxChecks == 3

\* the ids in S in ascending order (ORDER BY a.due_date ASC, ids given in
\* due-date order)
RECURSIVE Ascending(_)
Ascending(S) ==
    IF S = {} THEN <<>>
    ELSE LET m == CHOOSE x \in S : \A y \in S : x <= y
         IN <<m>> \o Ascending(S \ {m})

\* Assignments.get_due_soon (models.py:259-283): the pending assignments in
\* the window whose reminded_at is NULL
get_due_soon == Ascending(AssignmentIds \ reminded)

\* entry of check_and_send_reminders (tasks.py:38-55): an exception of
\* get_connection or get_due_soon is caught by the outer except; an empty
\* result returns at once
check_start(dbOk) ==
    /\ spc = "idle"
    /\ checks < MaxChecks
    /\ checks' = checks + 1
    /\ visit' = NoVisit
    /\ IF dbOk /\ get_due_soon # <<>>
       THEN spc' = "loop" /\ to_remind' = get_due_soon
       ELSE UNCHANGED <<spc, to_remind>>
    /\ UNCHANGED <<reminded, reminders>>

\* one iteration of the for loop (tasks.py:58-82).  how = "sent": the send
\* returned True and mark_reminded committed; "send_failed": send_reminder
\* returned False; "raised": an exception before the send returned;
\* "mark_failed": the send returned True and mark_reminded raised
\* (models.py:295-303), caught by the except of the iteration
check_visit(how) ==
    /\ spc = "loop"
    /\ to_remind # <<>>
    /\ LET a == Head(to_remind)
       IN /\ visit' = [id |-> a, how |-> how]
          /\ reminders' = IF how \in {"sent", "mark_failed"}
                          THEN [reminders EXCEPT ![a] = @ + 1]
                          ELSE reminders
          /\ reminded' = IF how = "sent" THEN reminded \cup {a} ELSE reminded
    /\ to_remind' = Tail(to_remind)
    /\ UNCHANGED <<spc, checks>>

\* the loop is over: conn.close() and return (tasks.py:84-85)
check_end ==
    /\ spc = "loop"
    /\ to_remind = <<>>
    /\ spc' = "idle"
    /\ UNCHANGED <<to_remind, reminded, reminders, checks, visit>>

InitReminders == SchedIdle /\ QueueInit /\ HandlerInit /\ HistInit /\ CountIdle /\ LibInit /\ DbInit /\ GenIdle /\ PipeIdle /\ FallbackIdle

\* the scheduler's job over several days
NextReminders ==
    \/ \E dbOk \in BOOLEAN : check_start(dbOk) /\ UNCHANGED <<qvars, hvars, histvars, pvars, avars, phist, pobs, processed, gvars, kvars, fvars, cvars>>
    \/ \E how \in {"sent", "send_failed", "raised", "mark_failed"} :
           check_visit(how) /\ UNCHANGED <<qvars, hvars, histvars, pvars, avars, phist, pobs, processed, gvars, kvars, fvars, cvars>>
    \/ check_end /\ UNCHANGED <<qvars, hvars, histvars, pvars, avars, phist, pobs, processed, gvars, kvars, fvars, cvars>>

SpecReminders == InitReminders /\ [][NextReminders]_vars

\* the ProcessedEmails table as earlier runs left it
DbAny == processed \in SUBSET Ids

InitPoller == AppInit /\ HandlerInit /\ HistInit /\ CountIdle /\ SchedIdle /\ PollerInit /\ DbAny /\ GenIdle /\ PipeIdle /\ FallbackIdle

\* EmailPoller as a library: the poll loop on its thread, with the handler
\* and the already-processed check of UniHelper or a callback that raises,
\* a mailbox that can present ids again, and another thread that may call
\* stop_polling; the worker thread is not scheduled
NextPoller ==
    \/ apc = "polling" /\ poll_loop /\ UNCHANGED <<avars, processed, gvars, kvars, fvars, cvars, svars>>
    \/ apc = "polling" /\ poll_transport_error /\ UNCHANGED <<avars, processed, gvars, kvars, fvars, cvars, svars>>
    \/ apc = "polling" /\ poll_empty /\ UNCHANGED <<avars, processed, gvars, kvars, fvars, cvars, svars>>
    \/ \E b \in Batches : apc = "polling" /\ poll_fetch(b) /\ UNCHANGED <<avars, processed, gvars, kvars, fvars, cvars, svars>>
    \/ apc = "polling" /\ poll_skip /\ UNCHANGED <<avars, processed, gvars, kvars, fvars, cvars, svars>>
    \/ \E ok \in BOOLEAN : apc = "polling" /\ poll_visit(ok) /\ UNCHANGED <<avars, processed, gvars, kvars, fvars, cvars, svars>>
    \/ apc = "polling" /\ poll_visit_raises /\ UNCHANGED <<avars, processed, gvars, kvars, fvars, cvars, svars>>
    \/ apc = "polling" /\ poll_check_raises /\ UNCHANGED <<avars, processed, gvars, kvars, fvars, cvars, svars>>
    \/ apc = "polling" /\ poll_batch_done /\ UNCHANGED <<avars, processed, gvars, kvars, fvars, cvars, svars>>
    \/ apc = "polling" /\ poll_sleep /\ UNCHANGED <<avars, processed, gvars, kvars, fvars, cvars, svars>>
    \/ apc = "polling" /\ poll_unexpected /\ UNCHANGED <<avars, processed, gvars, kvars, fvars, cvars, svars>>
    \/ apc = "polling" /\ poll_backoff /\ UNCHANGED <<avars, processed, gvars, kvars, fvars, cvars, svars>>
    \/ \E ok \in BOOLEAN : apc = "polling" /\ poll_reconnect(ok) /\ UNCHANGED <<avars, processed, gvars, kvars, fvars, cvars, svars>>
    \/ \E ok \in BOOLEAN : apc = "polling" /\ poll_reconnect_x(ok) /\ UNCHANGED <<avars, processed, gvars, kvars, fvars, cvars, svars>>
    \/ apc = "polling" /\ poll_return /\ UNCHANGED <<avars, processed, gvars, kvars, fvars, cvars, svars>>
    \/ apc = "polling" /\ stop_polling /\ UNCHANGED <<avars, processed, gvars, kvars, fvars, cvars, svars>>
    \/ apc = "polling" /\ handler_check /\ UNCHANGED <<avars, pvars, phist, pobs, processed, gvars, kvars, fvars, cvars, svars>>
    \/ apc = "polling" /\ handler_submit /\ UNCHANGED <<avars, pvars, phist, pobs, processed, gvars, kvars, fvars, cvars, svars>>
    \/ apc = "polling" /\ handler_put /\ UNCHANGED <<avars, pvars, phist, pobs, processed, gvars, kvars, fvars, cvars, svars>>

SpecPoller == InitPoller /\ [][NextPoller]_vars

\* poll and the loop's failure branch alone: the fetch that fails or returns
\* a batch, the walk over the batch with the handler or a callback that
\* raises, and the reconnect with backoff when poll reports failure
NextBatch ==
    \/ poll_loop /\ UNCHANGED <<avars, processed, gvars, kvars, fvars, cvars, svars>>
    \/ poll_transport_error /\ UNCHANGED <<avars, processed, gvars, kvars, fvars, cvars, svars>>
    \/ poll_empty /\ UNCHANGED <<avars, processed, gvars, kvars, fvars, cvars, svars>>
    \/ \E b \in Batches : poll_fetch(b) /\ UNCHANGED <<avars, processed, gvars, kvars, fvars, cvars, svars>>
    \/ poll_skip /\ UNCHANGED <<avars, processed, gvars, kvars, fvars, cvars, svars>>
    \/ \E ok \in BOOLEAN : poll_visit(ok) /\ UNCHANGED <<avars, processed, gvars, kvars, fvars, cvars, svars>>
    \/ poll_visit_raises /\ UNCHANGED <<avars, processed, gvars, kvars, fvars, cvars, svars>>
    \/ poll_check_raises /\ UNCHANGED <<avars, processed, gvars, kvars, fvars, cvars, svars>>
    \/ poll_batch_done /\ UNCHANGED <<avars, processed, gvars, kvars, fvars, cvars, svars>>
    \/ poll_sleep /\ UNCHANGED <<avars, processed, gvars, kvars, fvars, cvars, svars>>
    \/ poll_backoff /\ UNCHANGED <<avars, processed, gvars, kvars, fvars, cvars, svars>>
    \/ \E ok \in BOOLEAN : poll_reconnect(ok) /\ UNCHANGED <<avars, processed, gvars, kvars, fvars, cvars, svars>>
    \/ poll_return /\ UNCHANGED <<avars, processed, gvars, kvars, fvars, cvars, svars>>
    \/ handler_check /\ UNCHANGED <<avars, pvars, phist, pobs, processed, gvars, kvars, fvars, cvars, svars>>
    \/ handler_submit /\ UNCHANGED <<avars, pvars, phist, pobs, processed, gvars, kvars, fvars, cvars, svars>>
    \/ handler_put /\ UNCHANGED <<avars, pvars, phist, pobs, processed, gvars, kvars, fvars, cvars, svars>>

SpecBatch == InitPoller /\ [][NextBatch]_vars

\* _process_email_worker returned to the consumer: the pipeline succeeded
\* and ProcessedEmails.create recorded the message (main.py:199-202), or it
\* did not succeed and nothing was recorded
worker_done(w, marked) ==
    /\ witem[w].cb = "pipeline"
    /\ worker_callback_ok(w)
    /\ processed' = IF marked THEN processed \cup {witem[w].id} ELSE processed

\* the application over several poll cycles: a mailbox that can list a
\* message as unseen again, the handler, and the consumer draining the queue
NextRepoll ==
    \/ poll_loop /\ UNCHANGED <<avars, processed, gvars, kvars, fvars, cvars, svars>>
    \/ poll_empty /\ UNCHANGED <<avars, processed, gvars, kvars, fvars, cvars, svars>>
    \/ \E b \in Batches : poll_fetch(b) /\ UNCHANGED <<avars, processed, gvars, kvars, fvars, cvars, svars>>
    \/ poll_skip /\ UNCHANGED <<avars, processed, gvars, kvars, fvars, cvars, svars>>
    \/ \E ok \in BOOLEAN : poll_visit(ok) /\ UNCHANGED <<avars, processed, gvars, kvars, fvars, cvars, svars>>
    \/ poll_batch_done /\ UNCHANGED <<avars, processed, gvars, kvars, fvars, cvars, svars>>
    \/ poll_sleep /\ UNCHANGED <<avars, processed, gvars, kvars, fvars, cvars, svars>>
    \/ handler_check /\ UNCHANGED <<avars, pvars, phist, pobs, processed, gvars, kvars, fvars, cvars, svars>>
    \/ handler_submit /\ UNCHANGED <<avars, pvars, phist, pobs, processed, gvars, kvars, fvars, cvars, svars>>
    \/ handler_put /\ UNCHANGED <<avars, pvars, phist, pobs, processed, gvars, kvars, fvars, cvars, svars>>
    \/ \E w \in Workers : worker_check(w) /\ UNCHANGED <<avars, pvars, phist, pobs, processed, gvars, kvars, fvars, cvars, svars>>
    \/ \E w \in Workers : worker_get_empty(w) /\ UNCHANGED <<avars, pvars, phist, pobs, processed, gvars, kvars, fvars, cvars, svars>>
    \/ \E w \in Workers : worker_get(w) /\ UNCHANGED <<avars, pvars, phist, pobs, processed, gvars, kvars, fvars, cvars, svars>>
    \/ \E w \in Workers, marked \in BOOLEAN : worker_done(w, marked) /\ UNCHANGED <<avars, pvars, phist, pobs, gvars, kvars, fvars, cvars, svars>>

SpecRepoll == Init /\ [][NextRepoll]_vars

\* one call of generate_json, for every retries argument and backend script
InitGen == GenInit /\ QueueInit /\ HandlerInit /\ HistInit /\ CountIdle /\ SchedIdle /\ LibInit /\ DbInit /\ PipeIdle /\ FallbackIdle

NextGen == gen_attempt

SpecGen == InitGen /\ [][NextGen]_vars

\* one call of AIClient.generate_json or AIClient.generate, for every
\* provider and backend script
InitClient ==
    /\ QueueInit /\ HandlerInit /\ HistInit /\ CountIdle /\ SchedIdle /\ LibInit /\ DbInit /\ FallbackIdle
    /\ gpc \in {"loop", "gen"}
    /\ retries = DefaultRetries
    /\ attempt = 0
    /\ calls = 0
    /\ script \in [1..(MaxRetries + 1) -> Outputs]
    /\ gresult = NoResult
    /\ kpc = "idle"
    /\ provider \in Providers
    /\ words = {}
    /\ intent_result = NoDict
    /\ entities = NoDict
    /\ query_analysis = NoDict
    /\ result = NoOutcome
    /\ sent = "none"
    /\ persisted = {}
    /\ failures = {}
    /\ undecoded = {}
    /\ note_content = "none"
    /\ days = 0
    /\ assignment_row = NoRow
    /\ confirmation = NoConfirmation
    /\ branch = "none"

NextClient ==
    \/ client_generate_json_cloud
    \/ client_generate_json_local
    \/ client_generate

SpecClient == InitClient /\ [][NextClient]_vars

\* calls of _get_fallback_structure, for every pair of prompts
InitFallback ==
    FallbackInit /\ QueueInit /\ HandlerInit /\ HistInit /\ CountIdle /\ SchedIdle /\ LibInit /\ DbInit /\ GenIdle /\ PipeIdle

NextFallback == fallback_call \/ fallback_again

SpecFallback == InitFallback /\ [][NextFallback]_vars

\* one run of _process_email_worker, for every provider and every way the
\* backend and the database can answer
InitPipe == PipeInit /\ QueueInit /\ HandlerInit /\ HistInit /\ CountIdle /\ SchedIdle /\ LibInit /\ DbInit /\ GenIdle /\ FallbackIdle

NextPipe ==
    \/ \E a \in Json(IntentAnswers) \cup Failures :
           pipe_classify(a) /\ UNCHANGED <<qvars, hvars, histvars, pvars, avars, phist, pobs, gvars, fvars, cvars, svars>>
    \/ \E a \in Json(AssignmentAnswers) \cup Failures, dbOk \in BOOLEAN :
           \E due \in DueHours : pipe_assignment(a, dbOk, due) /\ UNCHANGED <<qvars, hvars, histvars, pvars, avars, phist, pobs, gvars, fvars, cvars, svars>>
    \/ \E a \in Json(NoteAnswers) \cup Failures, dbOk \in BOOLEAN :
           pipe_note(a, dbOk) /\ UNCHANGED <<qvars, hvars, histvars, pvars, avars, phist, pobs, gvars, fvars, cvars, svars>>
    \/ \E a \in Json(QueryAnswers) \cup Failures, dbOk \in BOOLEAN :
           pipe_query(a, dbOk) /\ UNCHANGED <<qvars, hvars, histvars, pvars, avars, phist, pobs, gvars, fvars, cvars, svars>>
    \/ \E a \in {"text", "fail"} :
           pipe_respond(a) /\ UNCHANGED <<qvars, hvars, histvars, pvars, avars, phist, pobs, gvars, fvars, cvars, svars>>
    \/ pipe_send /\ UNCHANGED <<qvars, hvars, histvars, pvars, avars, phist, pobs, gvars, fvars, cvars, svars>>
    \/ \E dbOk \in BOOLEAN :
           pipe_mark(dbOk) /\ UNCHANGED <<qvars, hvars, histvars, pvars, avars, phist, pobs, gvars, fvars, cvars, svars>>

SpecPipe == InitPipe /\ [][NextPipe]_vars

\* ------------------- the consumer with _process_email_worker as its callback

\* the queue as UniHelper.initialize leaves it (main.py:118-119): started,
\* one consumer, nothing submitted
QueueStarted ==
    /\ running = TRUE
    /\ queue = <<>>
    /\ unfinished = 0
    /\ total_processed = 0
    /\ total_errors = 0
    /\ worker_thread = 1
    /\ wpc = [w \in Workers |-> IF w = 1 THEN "check" ELSE "none"]
    /\ witem = [w \in Workers |-> NoItem]
    /\ cpc = "idle"
    /\ lastStop = "none"

InitWorker == QueueStarted /\ HandlerInit /\ HistInit /\ CountIdle /\ SchedIdle /\ LibInit /\ DbInit /\ GenIdle /\ PipeIdle /\ FallbackIdle

\* _worker calls callback(email_data) (queue.py:151-152), which is
\* _process_email_worker (main.py:180-186): a fresh run of the pipeline
worker_begin(w) ==
    /\ worker_get(w)
    /\ QueueGet(queue)[1].cb = "pipeline"
    /\ kpc \in {"idle", "finished"}
    /\ kpc' = "classify"
    /\ words' \in SUBSET {"intent"}
    /\ intent_result' = NoDict
    /\ entities' = NoDict
    /\ query_analysis' = NoDict
    /\ result' = NoOutcome
    /\ sent' = "none"
    /\ persisted' = {}
    /\ failures' = {}
    /\ undecoded' = {}
    /\ note_content' = "none"
    /\ days' = 0
    /\ assignment_row' = NoRow
    /\ confirmation' = NoConfirmation
    /\ branch' = "none"
    /\ UNCHANGED <<provider, avars, pvars, phist, pobs, processed, gvars, fvars, cvars, svars>>

\* _process_email_worker returns to _worker, also after its own except
\* clause logged an exception (main.py:214-217); _worker then counts the item
\* (queue.py:154-156) and marks it done (queue.py:171)
worker_return(w) ==
    /\ kpc = "done"
    /\ witem[w].cb = "pipeline"
    /\ worker_callback_ok(w)
    /\ kpc' = "finished"
    /\ UNCHANGED <<provider, words, intent_result, entities, query_analysis,
                   result, sent, persisted, failures, undecoded, note_content,
                   days, assignment_row, confirmation, branch>>
    /\ UNCHANGED <<avars, pvars, phist, pobs, processed, gvars, fvars, cvars, svars>>

\* the poll loop hands messages to process_email_callback; the one consumer
\* runs the pipeline on each queued message
NextWorker ==
    \/ deliver /\ UNCHANGED <<avars, pvars, phist, pobs, processed, gvars, kvars, fvars, cvars, svars>>
    \/ handler_check /\ UNCHANGED <<avars, pvars, phist, pobs, processed, gvars, kvars, fvars, cvars, svars>>
    \/ handler_submit /\ UNCHANGED <<avars, pvars, phist, pobs, processed, gvars, kvars, fvars, cvars, svars>>
    \/ handler_put /\ UNCHANGED <<avars, pvars, phist, pobs, processed, gvars, kvars, fvars, cvars, svars>>
    \/ \E w \in Workers : worker_check(w) /\ UNCHANGED <<avars, pvars, phist, pobs, processed, gvars, kvars, fvars, cvars, svars>>
    \/ \E w \in Workers : worker_get_empty(w) /\ UNCHANGED <<avars, pvars, phist, pobs, processed, gvars, kvars, fvars, cvars, svars>>
    \/ \E w \in Workers : worker_begin(w)
    \/ \E w \in Workers : worker_return(w)
    \/ \E a \in Json(IntentAnswers) \cup Failures :
           pipe_classify(a) /\ UNCHANGED <<qvars, hvars, histvars, pvars, avars, phist, pobs, gvars, fvars, cvars, svars>>
    \/ \E a \in Json(AssignmentAnswers) \cup Failures, dbOk \in BOOLEAN :
           \E due \in DueHours : pipe_assignment(a, dbOk, due) /\ UNCHANGED <<qvars, hvars, histvars, pvars, avars, phist, pobs, gvars, fvars, cvars, svars>>
    \/ \E a \in Json(NoteAnswers) \cup Failures, dbOk \in BOOLEAN :
           pipe_note(a, dbOk) /\ UNCHANGED <<qvars, hvars, histvars, pvars, avars, phist, pobs, gvars, fvars, cvars, svars>>
    \/ \E a \in Json(QueryAnswers) \cup Failures, dbOk \in BOOLEAN :
           pipe_query(a, dbOk) /\ UNCHANGED <<qvars, hvars, histvars, pvars, avars, phist, pobs, gvars, fvars, cvars, svars>>
    \/ \E a \in {"text", "fail"} :
           pipe_respond(a) /\ UNCHANGED <<qvars, hvars, histvars, pvars, avars, phist, pobs, gvars, fvars, cvars, svars>>
    \/ pipe_send /\ UNCHANGED <<qvars, hvars, histvars, pvars, avars, phist, pobs, gvars, fvars, cvars, svars>>
    \/ \E dbOk \in BOOLEAN :
           pipe_mark(dbOk) /\ UNCHANGED <<qvars, hvars, histvars, pvars, avars, phist, pobs, gvars, fvars, cvars, svars>>

SpecWorker == InitWorker /\ [][NextWorker]_vars

\* ================================================================ claims

IsPrefix(s, t) == Len(s) <= Len(t) /\ SubSeq(t, 1, Len(s)) = s
Pos(s, x) == CHOOSE k \in 1..Len(s) : s[k] = x
Elems(s) == {s[k] : k \in 1..Len(s)}

\* C1: in every reachable state at most one processing callback is in
\* progress, on the worker threads and the handler's thread together.
C1_AtMostOneInProgress == InProgress <= 1

\* C2: once stop() has returned because the consumer exited within the
\* timeout, every submitted item has been counted as processed or failed and
\* the queue is empty.
C2_StopDrainsAll ==
    (cpc = "idle" /\ lastStop = "joined")
        => (total_processed + total_errors = Len(submitted) /\ Len(queue) = 0)

\* C3: every message a poll delivered to the handler has been run through
\* the processing callback by the time the process ends.
C3_NoMessageLoss == ~ProcessAlive => Elems(delivered) \subseteq ran

\* the poll loop is over: flag cleared, loop left
Failed == ~is_running /\ ppc \in {"final", "returned"}

\* C4: once 5 reconnects in a row have failed the poll loop is FAILED
\* (running flag cleared, loop left), and from FAILED the poller only
\* returns: it never goes back to a poll or a reconnect attempt.
C4_FailedAfterFive ==
    /\ [](failStreak >= MaxFailures => Failed)
    /\ [][Failed => (Failed' /\ ppc' \in {ppc, "returned"}
                     /\ UNCHANGED <<consecutive_failures, retry_delay>>)]_vars

C4_Witness == failStreak = MaxFailures /\ ppc = "returned" /\ ~is_running

\* C5: the wait before a reconnect attempt is at most the ceiling, is twice
\* the previous wait (capped) when the previous reconnect failed, and is the
\* floor when nothing failed yet or the latest event was a successful
\* reconnect or poll.
C5_Backoff ==
    ppc \in {"backoff", "backoff_x"} =>
        /\ retry_delay <= max_retry_delay
        /\ lastEvent \in {"none", "reconnect_ok", "poll_ok"} => retry_delay = RetryFloor
        /\ lastEvent = "reconnect_failed" => retry_delay = Min(2 * lastWait, max_retry_delay)

\* the backend's k-th answer yields a decodable text
Valid(k) == Decodes(clean_json_response(generate(script[k])))
FirstValid(k) == Valid(k) /\ \A j \in 1..(k - 1) : ~Valid(j)

\* C6: if the backend's first valid answer is its k-th and k <= retries + 1,
\* generate_json returns the value parsed from that answer, not a fallback,
\* after exactly k backend invocations.
C6_RetryBound ==
    gpc = "done" =>
        \A k \in 1..(retries + 1) :
            FirstValid(k) =>
                /\ gresult = Parsed(clean_json_response(generate(script[k])))
                /\ calls = k

C6_Witness ==
    /\ gpc = "done"
    /\ retries = 2
    /\ FirstValid(3)
    /\ calls = 3
    /\ gresult.kind = "parsed"

\* C7: when no answer is decodable generate_json makes exactly retries + 1
\* backend invocations and returns a fallback; and whenever the backend
\* failed on an attempt that was made, the call returns a fallback.
C7_FallbackOnFailure ==
    gpc = "done" =>
        /\ (\A k \in 1..(retries + 1) : ~Valid(k))
               => (calls = retries + 1 /\ gresult = Fallback)
        /\ (\E k \in 1..calls : script[k] = BackendError) => gresult = Fallback

\* C8: the consumer dequeues no item while the running flag is cleared.
C8_NoDequeueAfterStop == afterStop = {}

\* C9: messages are submitted in the order the poll handed them to the
\* handler, and the consumer starts callbacks in submission order without
\* skipping: the started messages are a prefix of the submitted ones.
C9_Fifo ==
    /\ IsPrefix(started, submitted)
    /\ \A i, j \in 1..Len(submitted) :
           i < j => Pos(delivered, submitted[i]) < Pos(delivered, submitted[j])
    /\ \A i, j \in 1..Len(delivered) : i < j => delivered[i] < delivered[j]

\* two messages of the first batch, both started, the batch still open
C9_Witness ==
    /\ lastEvent = "none"
    /\ ppc = "batch"
    /\ started = <<1, 2>>

\* C10: the step in which a callback raises adds one to total_errors, leaves
\* total_processed and the queued items alone, marks the item complete and
\* puts the worker back at the head of its loop; a worker exits only from
\* the head of the loop with the running flag cleared.
C10_RaiseKeepsWorker ==
    [][\A w \in Workers :
          /\ (wpc[w] = "callback" /\ wpc'[w] # "callback"
                  /\ total_processed' = total_processed)
               => /\ total_errors' = total_errors + 1
                  /\ unfinished' = unfinished - 1
                  /\ queue' = queue
                  /\ wpc'[w] = "check"
          /\ (wpc[w] # "exited" /\ wpc'[w] = "exited")
               => (wpc[w] = "check" /\ ~running)]_vars

\* one worker, whose first callback raised, is inside the callback of the
\* item that was queued behind it
C10_Witness ==
    /\ total_errors = 1
    /\ total_processed = 0
    /\ started = <<1, 2>>
    /\ wpc[1] = "callback"
    /\ wpc[2] = "none"

\* a submit() call ends in this step: the controlling thread's, or the
\* handler's at the running test of queue.py:86
SubmitStep ==
    \/ hpc = "submit" /\ hpc' # "submit"
    \/ nextId' # nextId /\ delivered' = delivered

\* C11: a submit() call on a queue whose running flag is cleared ends with
\* the "not started" error and leaves the queued items, the unfinished count
\* and both counters as they were.
C11_SubmitNotStarted ==
    [][(~running /\ SubmitStep) =>
          /\ lastSubmit' = "not_started"
          /\ queue' = queue
          /\ submitted' = submitted
          /\ unfinished' = unfinished
          /\ total_processed' = total_processed
          /\ total_errors' = total_errors]_vars

\* a submit refused after stop() joined, with an earlier item left queued
C11_Witness ==
    /\ lastSubmit = "not_started"
    /\ lastStop = "joined"
    /\ ~running
    /\ Len(queue) = 1

HandlerRaised == \E k \in 1..Len(plog) : plog[k].act = "raise"

\* C12: the step in which the handler raises leaves the poll inside its
\* batch with the later messages still to visit and touches neither the
\* failure count, the delay nor the session; a poll in which a handler
\* raised and that reached the end of its batch reports success; and a poll
\* that reports failure from inside a batch never does so at a handler call.
C12_HandlerErrorContained ==
    /\ [][(Len(plog') = Len(plog) + 1 /\ plog'[Len(plog')].act = "raise") =>
              /\ ppc' = "batch"
              /\ batch' = Tail(batch)
              /\ UNCHANGED <<consecutive_failures, retry_delay, session,
                             is_running, pollCause>>]_vars
    /\ []((HandlerRaised /\ ppc = "sleep") =>
              /\ pollCause = "batch_done"
              /\ consecutive_failures = 0
              /\ session = "live")
    /\ []((ppc = "backoff" /\ plog # <<>>) => plog[Len(plog)].act = "abort")

\* the handler raised on the first message, was called on the second, and
\* the poll reported success
C12_Witness ==
    /\ ppc = "sleep"
    /\ Len(plog) = 2
    /\ plog[1].act = "raise"
    /\ plog[2].act = "call"
    /\ delivered = <<plog[1].id, plog[2].id>>

\* C13: a poll that just returned reports a transport error exactly when
\* fetching the unseen messages hit a transport-level error.
C13_TransportIff ==
    ppc \in {"backoff", "sleep"} => (ppc = "backoff" <=> pollCause = "transport")

\* ids of the messages the poll handed to the handler, in order
RECURSIVE Handled(_)
Handled(l) ==
    IF l = <<>> THEN <<>>
    ELSE (IF Head(l).act \in {"call", "raise"} THEN <<Head(l).id>> ELSE <<>>)
         \o Handled(Tail(l))

C15_OneEntryPerId ==
    \A i \in Ids :
        Cardinality({k \in 1..Len(plog) : plog[k].id = i}) >= 2 =>
            Cardinality({k \in (pollBase[2] + 1)..Len(submitted) : submitted[k] = i}) <= 1

\* C16: once stop_polling was called during the interval sleep or a backoff
\* wait, the loop is never again at a poll or at a connect() call.
C16_StopAtSleep ==
    stopAt \in {"sleep", "backoff", "backoff_x"} =>
        ppc \notin {"poll", "batch", "reconnect", "reconnect_x"}

\* C17: after a successful poll or reconnect, and until the next failure is
\* counted, consecutive_failures is 0.
C17_ResetOnSuccess ==
    (lastEvent \in {"reconnect_ok", "poll_ok"} /\ ppc \in {"loop", "poll", "batch", "sleep"})
        => consecutive_failures = 0

\* C18: when _process_email_worker is done a response has been sent: the
\* confirmation if the pipeline succeeded, an explanation otherwise.
C18_AlwaysResponds ==
    kpc = "done" =>
        /\ sent # "none"
        /\ result.success => sent = "confirmation"
        /\ ~result.success => sent = "explanation"

\* C19: when a backend call failed at some stage and no database call
\* failed, process_email does not raise and what it returns has a message.
C19_BackendFailureContained ==
    (failures # {} /\ "db" \notin failures) =>
        /\ result # Raised
        /\ kpc \in {"returned", "done"} => result.message # Absent

\* C20: process_assignment on entities whose due_date is absent, null, empty
\* or no ISO date returns success false with an explanation, raises nothing
\* and writes no row; the error is no_due_date when it is absent or null.
C20_NoDueDate ==
    (branch = "ASSIGNMENT" /\ kpc \in {"returned", "raised", "done"}
                          /\ entities.due_date # "iso") =>
        /\ result # Raised
        /\ ~result.success
        /\ result.message = "explanation"
        /\ persisted = {}
        /\ entities.due_date \in {Absent, "null"} => result.error = "no_due_date"

\* an unparseable due date, answered with an explanation
C20_Witness ==
    /\ kpc = "done"
    /\ branch = "ASSIGNMENT"
    /\ entities.due_date = "text"
    /\ result.error = "invalid_due_date"
    /\ sent = "explanation"
    /\ persisted = {}

\* C21: a dedup record for a message is written only by the step that follows
\* the attempted confirmation send of a pipeline run that returned
\* success: true; a run that returned success: false or raised ends with the
\* message not marked processed
C21_MarkedOnlyAfterSuccess ==
    /\ [][processed' # processed =>
            /\ kpc = "mark" /\ result.success /\ sent = "confirmation"
            /\ processed' = processed \cup {PipeMsg}]_vars
    /\ [](PipeMsg \in processed => result.success /\ sent = "confirmation")
    /\ []((kpc = "done" /\ ~result.success) => PipeMsg \notin processed)

\* a successful run whose confirmation was sent and whose id was recorded
C21_Witness ==
    kpc = "done" /\ PipeMsg \in processed /\ result.success /\ sent = "confirmation"

\* LocalModelManager.generate_json as a function of the backend's answers
\* from the given attempt on: the calls made and the value returned
RECURSIVE LocalRun(_, _, _)
LocalRun(sc, a, r) ==
    LET text == clean_json_response(generate(sc[a + 1]))
    IN IF Decodes(text) THEN [calls |-> a + 1, result |-> Parsed(text)]
       ELSE IF a < r THEN LocalRun(sc, a + 1, r)
       ELSE [calls |-> a + 1, result |-> Fallback]

\* C22: for the same backend outputs, AIClient.generate_json makes the same
\* number of attempts and yields the same parsed value or fallback under
\* every provider, and never raises
C22_SameUnderEveryProvider ==
    (gpc = "done" /\ gresult.kind \in {"parsed", "fallback", "raised"}) =>
        /\ gresult.kind # "raised"
        /\ calls = LocalRun(script, 0, DefaultRetries).calls
        /\ gresult = LocalRun(script, 0, DefaultRetries).result

\* C24: generate() reports a backend failure as an error under each of the
\* three providers, never as text
C24_GenerateRaises ==
    (gpc = "done" /\ gresult.kind \in {"text", "raised"} /\ calls = 1
     /\ script[1] = BackendError) => gresult.kind = "raised"

\* the text holds the keyword, in any mixture of upper and lower case
HoldsCI(t, key) ==
    \E i \in 1..(Len(t) - Len(key) + 1) :
        \A j \in 1..Len(key) : LowerChar(t[i + j - 1]) = key[j]
Mentions(k) ==
    HoldsCI(system_prompt, KeyText(k)) \/ HoldsCI(user_prompt, KeyText(k))

\* C23: the fallback structure is the one of the first group, in the order
\* intent/classify, due_date/assignment, note, query, one of whose keywords
\* occurs in the system or user prompt in any case, and the generic one when
\* none occurs; a repeated call with the same prompts returns the same
\* structure
C23_FallbackByKeyword ==
    /\ [](fpc = "done" =>
            fallback = IF Mentions("intent") \/ Mentions("classify") THEN IntentLocalFallback
                       ELSE IF Mentions("due_date") \/ Mentions("assignment") THEN AssignmentLocalFallback
                       ELSE IF Mentions("note") THEN NoteLocalFallback
                       ELSE IF Mentions("query") THEN QueryLocalFallback
                       ELSE NoDict)
    /\ [][(fpc = "call" /\ fpc' = "done" /\ fallback # NoDict) => fallback' = fallback]_vars

\* a prompt naming notes and, in capitals, assignments got the assignment
\* structure
C23_Witness ==
    /\ fpc = "done"
    /\ Mentions("note") /\ Mentions("assignment")
    /\ ~Mentions("intent") /\ ~Mentions("classify")
    /\ fallback = AssignmentLocalFallback

\* C25: whenever the backend call of the intent stage raised or gave output
\* that could not be decoded, the intent result process_email dispatches on
\* is intent GENERAL with confidence 0.5, under every provider
C25_IntentFallback ==
    (kpc # "classify" /\ "intent" \in failures \cup undecoded) =>
        intent_result.intent = "GENERAL" /\ intent_result.confidence = "0.5"

\* what the GENERAL branch returns
GeneralOutcome == Outcome(TRUE, "none", "acknowledged")

\* C26: ASSIGNMENT, NOTE and QUERY are dispatched to their own branch and
\* every other intent value to the GENERAL branch, which returns success:
\* true with the guidance message; after the classification that branch
\* makes no generation call and writes no row
C26_DispatchExhaustive ==
    /\ [](branch # "none" =>
            /\ intent_result.intent \in {"ASSIGNMENT", "NOTE", "QUERY"} => branch = intent_result.intent
            /\ intent_result.intent \notin {"ASSIGNMENT", "NOTE", "QUERY"} => branch = "GENERAL")
    /\ [](branch = "GENERAL" =>
            /\ result = GeneralOutcome
            /\ entities = NoDict /\ query_analysis = NoDict /\ persisted = {}
            /\ failures \cup undecoded \subseteq {"intent", "db"})
    /\ [][branch = "GENERAL" =>
            UNCHANGED <<intent_result, entities, query_analysis, result, persisted, undecoded>>]_vars

\* an intent value outside the four names was answered like GENERAL
C26_Witness ==
    /\ kpc = "done" /\ intent_result.intent = "OTHER" /\ branch = "GENERAL"
    /\ result = GeneralOutcome /\ sent = "confirmation" /\ persisted = {}

\* C27: the NOTE branch returns success: true for every extraction result,
\* also one without usable content, and the note it stores holds the
\* extracted content when there is one and the raw body otherwise
C27_NoteAlwaysSucceeds ==
    (branch = "NOTE" /\ kpc \in {"returned", "raised", "mark", "done"} /\ "db" \notin failures) =>
        /\ result.success
        /\ "note" \in persisted
        /\ note_content = IF entities.content \in {Absent, "null"} THEN "body"
                          ELSE entities.content

\* C28: for an assignments_due query the lookahead window is 1 day for today
\* and for tomorrow, 7 days for this_week, 14 days for next_week and 30 days
\* for every other time_filter: all, null, an unknown value, or none at all
C28_LookaheadWindow ==
    (branch = "QUERY" /\ kpc \in {"respond", "returned", "raised", "mark", "done"}
     /\ query_analysis.query_type = "assignments_due") =>
        days = CASE query_analysis.time_filter \in {"today", "tomorrow"} -> 1
                 [] query_analysis.time_filter = "this_week" -> 7
                 [] query_analysis.time_filter = "next_week" -> 14
                 [] OTHER -> 30

\* C29: a stop() call that waits for the consumer returns, also when the
\* consumer sits in a callback that never returns, and whenever stop() has
\* returned the running flag is false
C29_StopReturns ==
    /\ (cpc = "joining") ~> (cpc = "idle" /\ lastStop \in {"joined", "timeout"})
    /\ [](lastStop \in {"not_running", "joined", "timeout"} => ~running)

\* stop() returned on its timeout while the consumer was inside a callback
C29_Witness ==
    /\ lastStop = "timeout" /\ cpc = "idle" /\ ~running
    /\ wpc[worker_thread] = "callback"

\* C30: once the stop flag is cleared, a consumer whose callbacks terminate
\* exits, unless the queue is started again first; this holds for a consumer
\* that is idle on an empty queue
C30_ConsumerExits ==
    \A w \in Workers :
        []<>(wpc[w] # "callback") =>
            ((~running /\ IsAlive(w)) ~> (~IsAlive(w) \/ running))

\* a consumer that never got an item exited after stop()
C30_Witness ==
    /\ ~running /\ lastStop = "joined" /\ submitted = <<>>
    /\ wpc[worker_thread] = "exited"

\* the consumer threads that are alive
Alive == {w \in Workers : IsAlive(w)}

\* C31: a start() call on a queue that is already running changes nothing:
\* the running flag, the queue contents, the counters and the consumers stay
\* as they are, so the number of consumers does not grow with the number of
\* start() calls; a start() call on a stopped queue adds one consumer
C31_StartIdempotent ==
    [][lastStart'.tick # lastStart.tick =>
        IF running
        THEN /\ UNCHANGED <<running, queue, unfinished, total_processed,
                            total_errors, worker_thread, wpc, witem>>
             /\ lastStart'.how = "noop"
        ELSE running' /\ Cardinality(Alive') = Cardinality(Alive) + 1]_vars

\* start() was called on the running queue, which has its one consumer
C31_Witness ==
    /\ lastStart.how = "noop" /\ running /\ lastStop = "none"
    /\ Cardinality(Alive) = 1


\* C32: an ASSIGNMENT message whose extracted due_date parses makes the
\* pipeline return success: true; the confirmation shows the due date and a
\* reminder at the same clock time one calendar day (24 hours) earlier, and
\* the assignment is stored with reminder_hours 24
C32_ParsedDueDateSucceeds ==
    (branch = "ASSIGNMENT" /\ kpc \in {"returned", "raised", "mark", "done"}
     /\ IsoParses(entities.due_date) /\ "db" \notin failures) =>
        /\ result.success
        /\ "assignment" \in persisted
        /\ assignment_row.reminder_hours = 24
        /\ confirmation.due = Stamp(assignment_row.due_date)
        /\ confirmation.reminder = [confirmation.due EXCEPT !.day = @ - 1]


\* C33: under the local provider, the fallback a stage receives after every
\* attempt of its structured request failed, the request being made with the
\* system prompt in front, holds the keys that stage reads: intent and
\* confidence for the classification, due_date and title for the assignment
\* extraction, content for the note extraction, query_type for the query
C33_FallbackHasStageShape ==
    provider = "local" =>
        /\ (kpc # "classify" /\ "intent" \in failures \cup undecoded) =>
               intent_result.intent # Absent /\ intent_result.confidence # Absent
        /\ "assignment" \in failures \cup undecoded =>
               entities.due_date # Absent /\ entities.title # Absent
        /\ "note" \in failures \cup undecoded => entities.content # Absent
        /\ "query" \in failures \cup undecoded => query_analysis.query_type # Absent


\* a run of the pipeline that threw inside _process_email_worker: in
\* process_email, or at ProcessedEmails.create
Threw == result = Raised \/ "db" \in failures

\* C34: when processing a message threw inside the consumer's callback, the
\* consumer counts that message in total_errors and not in total_processed
C34_ThrownCountsAsError ==
    [][\A w \in Workers :
          (wpc[w] = "callback" /\ wpc'[w] # "callback" /\ Threw) =>
              /\ total_errors' = total_errors + 1
              /\ total_processed' = total_processed]_vars


\* consumers inside a callback, the counting of its item included
InCallback == Cardinality({w \in Workers : wpc[w] = "callback"})

\* C35: in every state of the queue the number of successful submit() calls
\* equals the queue size plus the items whose callback is in progress plus
\* total_processed plus total_errors; every dequeued item raises exactly one
\* of the two counters by one and is marked complete exactly once
C35_Conservation ==
    /\ [](Len(submitted) = Len(queue) + InCallback + total_processed + total_errors)
    /\ [](unfinished = Len(queue) + InCallback)
    /\ [][\A w \in Workers :
            (wpc[w] = "callback" /\ wpc'[w] # "callback") =>
                /\ total_processed' + total_errors' = total_processed + total_errors + 1
                /\ total_processed' >= total_processed
                /\ total_errors' >= total_errors
                /\ unfinished' = unfinished - 1]_vars


\* the queue entries and callbacks in progress that carry message i
InFlight(i) ==
    Cardinality({k \in 1..Len(queue) : queue[k].id = i})
    + Cardinality({w \in Workers : witem[w].id = i})

\* C36: a message that waits in the queue or is being processed is not
\* submitted again when a later poll lists it as unseen once more, and the
\* pipeline is started at most once for any message id
C36_NoSecondSubmission ==
    \A i \in Ids :
        /\ InFlight(i) <= 1
        /\ Cardinality({k \in 1..Len(started) : started[k] = i}) <= 1


\* C37: in every state of the poll loop retry_delay lies between 5 and 60,
\* consecutive_failures is at most 5, and consecutive_failures = 0 implies
\* retry_delay = 5
C37_PollerStateInvariant ==
    ppc # "none" =>
        /\ RetryFloor <= retry_delay /\ retry_delay <= max_retry_delay
        /\ consecutive_failures <= MaxFailures
        /\ consecutive_failures = 0 => retry_delay = RetryFloor


\* C38: the loop is at a poll only while a session is established, so no
\* poll follows a failed reconnect before a reconnect has succeeded, and a
\* poll that was reported successful ran on a live session
C38_PollOnlyWithSession ==
    /\ ppc \in {"poll", "batch"} => session = "live"
    /\ (ppc = "sleep" /\ lastEvent = "poll_ok") => session = "live"


\* C39: process_email_callback hands every message it has parsed either to
\* the queue or to a direct run of the worker function on its own thread,
\* whatever a concurrent stop() of the queue does in between
C39_HandlerNeverDrops ==
    [][(hmsg # 0 /\ hmsg' = 0) =>
          \/ hpc = "put" /\ submitted' = Append(submitted, hmsg)
          \/ hpc = "direct" /\ hmsg \in ran]_vars


\* C40: an assignment is marked reminded only in the step in which its
\* reminder was sent; over all checks each assignment gets at most one
\* delivered reminder; and an iteration whose send failed or raised leaves
\* its assignment unmarked and the loop goes on to the next assignment
C40_ReminderOnce ==
    /\ [][\A a \in AssignmentIds :
            (a \in reminded' /\ a \notin reminded) => reminders'[a] = reminders[a] + 1]_vars
    /\ [](\A a \in AssignmentIds : reminders[a] <= 1)
    /\ [][(spc = "loop" /\ to_remind' # to_remind
           /\ visit'.how \in {"send_failed", "raised"}) =>
              /\ visit'.id \notin reminded'
              /\ spc' = "loop"
              /\ to_remind' = Tail(to_remind)]_vars

====
